---- MODULE Spec2Model ----
\* Verification model of the web-search service: the rate/concurrency governor
\* (RateLimiter) and the multi-engine search orchestrator (SearchEngine.search).
\*
\* Relevance scores are kept in hundredths (0.8 is 80, 0.3 is 30), times in ms.
EXTENDS Integers, Sequences, FiniteSets, TLC

VARIABLES
    clock,          \* Date.now()
    requestCount,   \* RateLimiter.requestCount
    lastResetTime,  \* RateLimiter.lastResetTime
    queued,         \* calls admitted by execute() and waiting in the p-limit queue
    activeCount,    \* functions p-limit is running
    lastWait,       \* seconds announced by the most recent rejection of execute()
    pc,             \* position of the observed search() call
    cfg,            \* environment configuration read when the wrapped function starts
    i,              \* loop index into approaches (1-based)
    bestResults,    \* search(): let bestResults
    bestEngine,     \* search(): let bestEngine
    bestQuality,    \* search(): let bestQuality
    attempts,       \* backend attempts of the observed call, in the order they were started
    outcome,        \* <<value>> once search() has resolved, <<>> before
    thrown,         \* <<error>> once search() has rejected, <<>> before
    bPc,            \* position of the observed extractContentForResults() call
    bInput,         \* its argument `results`
    bTarget,        \* its argument `targetCount`
    bItems,         \* resultsToProcess, each with the entry its callback has returned
    bOrder,         \* indices of resultsToProcess in the order their callbacks settled
    bReturned,      \* the list the call returned
    fPc,            \* position of the observed extractContent() call
    fExtractor,     \* the class whose extractContent() is called
    fUrl,           \* options.url
    fMaxLen,        \* options.maxContentLength
    fFast,          \* the fast-path requests made so far, with what each came to
    fSlow,          \* number of calls of extractWithBrowser()
    fOpen,          \* browsing contexts opened and not closed
    fResult,        \* <<value>> once extractContent() has settled
    fNav,           \* the page.goto() calls of the slow path, each with its context and error
    poolConfig,     \* <<>> until the BrowserPool is constructed, then <<its configuration>>
    browsers,       \* the pool map, as its entries in insertion order
    currentBrowserIndex,
    lastUsedBrowserType,
    launchCount,    \* browser processes launched so far; they are numbered 1, 2, ...
    connected,      \* the browser processes whose isConnected() is true
    closeInvoked,   \* the browser processes on which close() has been called
    calls,          \* per caller, the state of its getBrowser() call
    cPc,            \* position of the closeAll() call
    cHeld,          \* the browsers the pool held when closeAll() was called
    cPending,       \* closes of closeAll() that have not settled yet
    cHung,          \* closes of closeAll() that never settle
    pPc,            \* position of the observed call of an engine's result parser
    pEngine,        \* the engine whose parser is called
    pHtml,          \* its argument `html`, as the result blocks of the page
    pMaxResults,    \* its argument `maxResults`
    pSelector,      \* index of the container selector the loop is at
    pElement,       \* index of the element .each() is at
    pResults,       \* the parser's `results`
    pFound,         \* the parser's `foundResults`
    fnCall,         \* a call of one of the synchronous functions, with its arguments
    fnResult        \* <<what the call returned>>, <<>> before it has run

limiterVars == <<clock, requestCount, lastResetTime, queued, activeCount, lastWait>>
searchVars == <<pc, cfg, i, bestResults, bestEngine, bestQuality, attempts, outcome, thrown>>
batchVars == <<bPc, bInput, bTarget, bItems, bOrder, bReturned>>
fetchVars == <<fPc, fExtractor, fUrl, fMaxLen, fFast, fSlow, fOpen, fResult, fNav>>
poolVars == <<poolConfig, browsers, currentBrowserIndex, lastUsedBrowserType, launchCount,
              connected, closeInvoked, calls, cPc, cHeld, cPending, cHung>>
parseVars == <<pPc, pEngine, pHtml, pMaxResults, pSelector, pElement, pResults, pFound>>
callVars == <<fnCall, fnResult>>
extVars == <<batchVars, fetchVars, poolVars, parseVars, callVars>>
notBatchVars == <<limiterVars, searchVars, fetchVars, poolVars, parseVars, callVars>>
notFetchVars == <<limiterVars, searchVars, batchVars, poolVars, parseVars, callVars>>
notPoolVars == <<limiterVars, searchVars, batchVars, fetchVars, parseVars, callVars>>
notParseVars == <<limiterVars, searchVars, batchVars, fetchVars, poolVars, callVars>>
notCallVars == <<limiterVars, searchVars, batchVars, fetchVars, poolVars, parseVars>>
vars == <<clock, requestCount, lastResetTime, queued, activeCount, lastWait,
          pc, cfg, i, bestResults, bestEngine, bestQuality, attempts, outcome, thrown,
          bPc, bInput, bTarget, bItems, bOrder, bReturned,
          fPc, fExtractor, fUrl, fMaxLen, fFast, fSlow, fOpen, fResult, fNav,
          poolConfig, browsers, currentBrowserIndex, lastUsedBrowserType, launchCount,
          connected, closeInvoked, calls, cPc, cHeld, cPending, cHung,
          pPc, pEngine, pHtml, pMaxResults, pSelector, pElement, pResults, pFound,
          fnCall, fnResult>>

----------------------------------------------------------------------------
\* Bounds of the model

\* callers waiting in or running under the governor at the same time
MaxInFlight == 6
\* longest result list a backend returns
MaxResults == 1
\* number of further reset windows the clock runs through after the first
MaxWindows == 0
\* longest `results` list handed to extractContentForResults
MaxInput == 3
\* largest targetCount handed to extractContentForResults
MaxTarget == 2
\* number of getBrowser() calls made on the pool
MaxCalls == 3
MaxBlocks == 2
MaxCap == 2
MaxTail == 3
MaxText == 4
MaxQuery == 2
\* most elements matching a content selector, and most paragraphs, on a page
MaxElements == 2

----------------------------------------------------------------------------
\* RateLimiter

maxRequestsPerMinute == 10
resetIntervalMs == 60000
concurrency == 5

\* the instants at which Date.now() is read: both ends of every window
Instants == { w * resetIntervalMs + d : w \in 0..MaxWindows, d \in {0, resetIntervalMs - 1} }
                \cup { (MaxWindows + 1) * resetIntervalMs }

\* variant: the window is over only after more than resetIntervalMs
WindowElapsed_Strict(now) == now - lastResetTime > resetIntervalMs

WindowElapsed(now) == now - lastResetTime >= resetIntervalMs

CountAfterReset(now) == IF WindowElapsed(now) THEN 0 ELSE requestCount

ResetTimeAfterReset(now) == IF WindowElapsed(now) THEN now ELSE lastResetTime

\* variant: the quota check lets one call too many through
QuotaExhausted_OffByOne(count) == count > maxRequestsPerMinute

QuotaExhausted(count) == count >= maxRequestsPerMinute

\* Math.ceil(a / b) for b > 0
Ceil(a, b) == IF a % b = 0 THEN a \div b ELSE (a \div b) + 1

WaitSeconds(now, resetTime) == Ceil(resetIntervalMs - (now - resetTime), 1000)

\* variant: the concurrency gate lets one function too many start
SlotFree_OffByOne == activeCount <= concurrency

\* p-limit starts a queued function only while fewer than `concurrency` run
SlotFree == activeCount < concurrency

\* time passes
Tick ==
    /\ UNCHANGED extVars
    /\ \E t \in Instants : t > clock /\ clock' = t
    /\ UNCHANGED <<requestCount, lastResetTime, queued, activeCount, lastWait>>
    /\ UNCHANGED searchVars

\* execute(fn), the synchronous part up to `await this.limit(...)`, for a call
\* that passes the quota check: fn is handed to p-limit, which never starts it
\* in the same tick
ExecuteAdmit ==
    /\ UNCHANGED extVars
    /\ queued + activeCount < MaxInFlight
    /\ ~QuotaExhausted(CountAfterReset(clock))
    /\ requestCount' = CountAfterReset(clock)
    /\ lastResetTime' = ResetTimeAfterReset(clock)
    /\ queued' = queued + 1
    /\ UNCHANGED <<clock, activeCount, lastWait>>
    /\ UNCHANGED searchVars

\* execute(fn) for a call that fails the quota check: throws
ExecuteReject ==
    /\ UNCHANGED extVars
    /\ QuotaExhausted(CountAfterReset(clock))
    /\ requestCount' = CountAfterReset(clock)
    /\ lastResetTime' = ResetTimeAfterReset(clock)
    /\ lastWait' = WaitSeconds(clock, ResetTimeAfterReset(clock))
    /\ UNCHANGED <<clock, queued, activeCount>>
    /\ UNCHANGED searchVars

\* p-limit dequeues a waiting function and runs it: requestCount++, then fn()
LimitStart ==
    /\ UNCHANGED extVars
    /\ queued > 0
    /\ SlotFree
    /\ queued' = queued - 1
    /\ activeCount' = activeCount + 1
    /\ requestCount' = requestCount + 1
    /\ UNCHANGED <<clock, lastResetTime, lastWait>>
    /\ UNCHANGED searchVars

\* a running function settles and p-limit frees its slot
FnDone ==
    /\ UNCHANGED extVars
    /\ activeCount > 0
    /\ activeCount' = activeCount - 1
    /\ UNCHANGED <<clock, requestCount, lastResetTime, queued, lastWait>>
    /\ UNCHANGED searchVars

----------------------------------------------------------------------------
\* SearchEngine.search

approaches == <<"Browser Bing", "Browser Brave", "Axios DuckDuckGo">>

NoEngine == "None"

\* values assessResultQuality can return, in hundredths
Scores == {0, 20, 30, 80}

\* values of RELEVANCE_THRESHOLD, in hundredths (30 is the default)
Thresholds == {0, 30}

Configs == [enableQualityCheck : BOOLEAN, qualityThreshold : Thresholds, forceMultiEngine : BOOLEAN]

DefaultConfig == [enableQualityCheck |-> TRUE, qualityThreshold |-> 30, forceMultiEngine |-> FALSE]

\* the result list backend `name` parsed, n entries long
ResultList(name, n) == [k \in 1..n |-> [engine |-> name, rank |-> k]]

\* what a backend attempt can settle with: a (possibly empty) result list whose
\* relevance assessResultQuality would compute, or a thrown value
\* (the last one is a thrown value that is not an Error instance)
ThrownValues ==
    { [isError |-> TRUE, message |-> "Target page, context or browser has been closed"],
      [isError |-> TRUE, message |-> "Timeout exceeded"],
      [isError |-> FALSE, message |-> ""] }

BackendOutcomes ==
    { [kind |-> "results", n |-> 0, relevance |-> 0, isError |-> FALSE, message |-> ""] }
    \cup { [kind |-> "results", n |-> n, relevance |-> s, isError |-> FALSE, message |-> ""] :
              n \in 1..MaxResults, s \in Scores }
    \cup { [kind |-> "throws", n |-> 0, relevance |-> 0, isError |-> t.isError, message |-> t.message] :
              t \in ThrownValues }

Init ==
    /\ clock = 0
    /\ requestCount = 0
    /\ lastResetTime = 0
    /\ queued = 0
    /\ activeCount = 0
    /\ lastWait = 0
    /\ pc = "idle"
    /\ cfg = DefaultConfig
    /\ i = 0
    /\ bestResults = <<>>
    /\ bestEngine = NoEngine
    /\ bestQuality = 0
    /\ attempts = <<>>
    /\ outcome = <<>>
    /\ thrown = <<>>
    /\ bPc = "idle"
    /\ bInput = <<>>
    /\ bTarget = 0
    /\ bItems = <<>>
    /\ bOrder = <<>>
    /\ bReturned = <<>>
    /\ fPc = "idle"
    /\ fExtractor = "EnhancedContentExtractor"
    /\ fUrl = [href |-> "page", jsHeavy |-> FALSE]
    /\ fMaxLen = 0
    /\ fFast = <<>>
    /\ fSlow = 0
    /\ fOpen = {}
    /\ fResult = <<>>
    /\ fNav = <<>>
    /\ poolConfig = <<>>
    /\ browsers = <<>>
    /\ currentBrowserIndex = 0
    /\ lastUsedBrowserType = ""
    /\ launchCount = 0
    /\ connected = {}
    /\ closeInvoked = {}
    /\ calls = [c \in {"first", "second"} |->
                  [pc |-> "idle", type |-> "", held |-> 0, probe |-> "none",
                   fresh |-> 0, evicted |-> 0, evictedType |-> "", returned |-> 0]]
    /\ cPc = "idle"
    /\ cHeld = {}
    /\ cPending = {}
    /\ cHung = {}
    /\ pPc = "idle"
    /\ pEngine = "bing"
    /\ pHtml = <<>>
    /\ pMaxResults = 0
    /\ pSelector = 0
    /\ pElement = 0
    /\ pResults = <<>>
    /\ pFound = FALSE
    /\ fnCall = [fn |-> "none"]
    /\ fnResult = <<>>

\* per-call state of search() before the wrapped function has started
ClearedCall ==
    /\ cfg' = DefaultConfig
    /\ i' = 0
    /\ bestResults' = <<>>
    /\ bestEngine' = NoEngine
    /\ bestQuality' = 0
    /\ attempts' = <<>>

\* the log entry of a backend attempt that has just been started
Started(name) ==
    [engine |-> name, status |-> "inflight", n |-> 0, relevance |-> 0,
     isError |-> FALSE, message |-> "", poolClosed |-> FALSE]

\* the log entry of an attempt once it has settled with `out`
Settled(entry, out) ==
    [entry EXCEPT !.status = out.kind, !.n = out.n, !.relevance = out.relevance,
                  !.isError = out.isError, !.message = out.message]

\* qualityScore: assessResultQuality(results, query) when checking is enabled, else 1.0
QualityScore(c, relevance) == IF c.enableQualityCheck THEN relevance ELSE 100

\* "Track the best results so far"
Improves(q, best) == q > best

\* variant: the high-confidence bar excludes its boundary
Excellent_Strict(c, q) == q > 80 /\ ~c.forceMultiEngine

\* variant: an excellent score returns at once whatever the flag says
Excellent_IgnoresFlag(c, q) == q >= 80

\* "If quality is excellent, return immediately (unless forcing multi-engine)"
Excellent(c, q) == q >= 80 /\ ~c.forceMultiEngine

\* variant: the primary backend is held to the same bar as the others
Acceptable_AnyEngine(c, q, name) == q >= c.qualityThreshold /\ ~c.forceMultiEngine

\* "If quality is acceptable and this isn't Bing (first engine), return"
Acceptable(c, q, name) == q >= c.qualityThreshold /\ name # "Browser Bing" /\ ~c.forceMultiEngine

IsLastApproach(k) == k = Len(approaches)

\* variant: on the last approach the best results are returned under the name
\* of the current approach
Decide_CurrentName(c, k, results, q, bResults, bEngine, bQuality) ==
    IF Excellent(c, q) THEN <<[results |-> results, engine |-> approaches[k]]>>
    ELSE IF Acceptable(c, q, approaches[k]) THEN <<[results |-> results, engine |-> approaches[k]]>>
    ELSE IF IsLastApproach(k)
         THEN IF bQuality >= c.qualityThreshold \/ ~c.enableQualityCheck
              THEN <<[results |-> bResults, engine |-> approaches[k]]>>
              ELSE IF Len(bResults) > 0
                   THEN <<[results |-> bResults, engine |-> approaches[k]]>>
                   ELSE <<>>
         ELSE <<>>

\* the value search() returns after the attempt at index k produced the non-empty
\* list `results` of quality q, or <<>> when the loop goes on; best* are the
\* values after the tracking update
Decide(c, k, results, q, bResults, bEngine, bQuality) ==
    IF Excellent(c, q) THEN <<[results |-> results, engine |-> approaches[k]]>>
    ELSE IF Acceptable(c, q, approaches[k]) THEN <<[results |-> results, engine |-> approaches[k]]>>
    ELSE IF IsLastApproach(k)
         THEN IF bQuality >= c.qualityThreshold \/ ~c.enableQualityCheck
              THEN <<[results |-> bResults, engine |-> bEngine]>>
              ELSE IF Len(bResults) > 0
                   THEN <<[results |-> bResults, engine |-> bEngine]>>
                   ELSE <<>>
         ELSE <<>>

\* variant: the loop skips an approach
NextIndex_Skip(k) == k + 2

\* the index of the approach tried after the one at index k
NextIndex(k) == k + 1

\* handleBrowserError: errorMessage
ErrorMessage(out) == IF out.isError THEN out.message ELSE "Unknown error"

\* variant: the first session-closure phrase is not recognised
SessionClosed_TwoPhrases(message) ==
    message \in { "Browser has been closed", "Session has been closed" }

\* handleBrowserError: errorMessage.includes(one of the session-closure phrases)
SessionClosed(message) ==
    message \in { "Target page, context or browser has been closed",
                  "Browser has been closed",
                  "Session has been closed" }

\* search(options), the synchronous part: the governor admits the call
SearchAdmit ==
    /\ UNCHANGED extVars
    /\ pc = "idle"
    /\ ~QuotaExhausted(CountAfterReset(clock))
    /\ requestCount' = CountAfterReset(clock)
    /\ lastResetTime' = ResetTimeAfterReset(clock)
    /\ pc' = "queued"
    /\ UNCHANGED <<clock, queued, activeCount, lastWait>>
    /\ UNCHANGED <<cfg, i, bestResults, bestEngine, bestQuality, attempts, outcome, thrown>>

\* search(options): the governor rejects the call, search() rethrows
SearchReject ==
    /\ UNCHANGED extVars
    /\ pc = "idle"
    /\ QuotaExhausted(CountAfterReset(clock))
    /\ requestCount' = CountAfterReset(clock)
    /\ lastResetTime' = ResetTimeAfterReset(clock)
    /\ lastWait' = WaitSeconds(clock, ResetTimeAfterReset(clock))
    /\ thrown' = <<[error |-> "Failed to perform search: Rate limit exceeded",
                    wait |-> WaitSeconds(clock, ResetTimeAfterReset(clock))]>>
    /\ pc' = "rejected"
    /\ UNCHANGED <<clock, queued, activeCount>>
    /\ UNCHANGED <<cfg, i, bestResults, bestEngine, bestQuality, attempts, outcome>>

\* p-limit starts the wrapped function: it counts the request, reads the
\* configuration and calls the first approach
SearchStart ==
    /\ UNCHANGED extVars
    /\ pc = "queued"
    /\ SlotFree
    /\ activeCount' = activeCount + 1
    /\ requestCount' = requestCount + 1
    /\ \E c \in Configs : cfg' = c
    /\ bestResults' = <<>>
    /\ bestEngine' = NoEngine
    /\ bestQuality' = 0
    /\ i' = 1
    /\ attempts' = <<Started(approaches[1])>>
    /\ pc' = "await"
    /\ UNCHANGED <<clock, lastResetTime, queued, lastWait, outcome, thrown>>

\* the wrapped function returns `value`; p-limit frees the slot
Return(value) ==
    /\ outcome' = <<value>>
    /\ activeCount' = activeCount - 1
    /\ pc' = "returned"
    /\ i' = i

\* the loop moves past index k: the next approach is called, or the loop is
\* over and the empty outcome is returned
Advance(log) ==
    IF NextIndex(i) <= Len(approaches)
    THEN /\ i' = NextIndex(i)
         /\ attempts' = Append(log, Started(approaches[NextIndex(i)]))
         /\ pc' = "await"
         /\ UNCHANGED <<activeCount, outcome>>
    ELSE /\ attempts' = log
         /\ Return([results |-> <<>>, engine |-> NoEngine])

\* the awaited approach resolves with a result list
BackendResolves ==
    /\ UNCHANGED extVars
    /\ pc = "await"
    /\ \E out \in BackendOutcomes :
        /\ out.kind = "results"
        /\ LET log == [attempts EXCEPT ![Len(attempts)] = Settled(@, out)]
               results == ResultList(approaches[i], out.n)
               q == QualityScore(cfg, out.relevance)
               better == Improves(q, bestQuality)
               bResults == IF better THEN results ELSE bestResults
               bEngine == IF better THEN approaches[i] ELSE bestEngine
               bQuality == IF better THEN q ELSE bestQuality
               decision == Decide(cfg, i, results, q, bResults, bEngine, bQuality)
           IN IF Len(results) > 0
              THEN /\ bestResults' = bResults
                   /\ bestEngine' = bEngine
                   /\ bestQuality' = bQuality
                   /\ IF decision # <<>>
                      THEN attempts' = log /\ Return(decision[1])
                      ELSE Advance(log)
              ELSE /\ UNCHANGED <<bestResults, bestEngine, bestQuality>>
                   /\ Advance(log)
    /\ UNCHANGED <<clock, requestCount, lastResetTime, queued, lastWait, cfg, thrown>>

\* the awaited approach throws: the catch block runs handleBrowserError, which
\* calls BrowserPool.closeAll for a session-closure message
BackendThrows ==
    /\ UNCHANGED extVars
    /\ pc = "await"
    /\ \E out \in BackendOutcomes :
        /\ out.kind = "throws"
        /\ LET log == [attempts EXCEPT ![Len(attempts)] = Settled(@, out)]
           IN IF SessionClosed(ErrorMessage(out))
              THEN /\ attempts' = log
                   /\ pc' = "closing"
                   /\ UNCHANGED <<i, activeCount, outcome>>
              ELSE Advance(log)
    /\ UNCHANGED <<clock, requestCount, lastResetTime, queued, lastWait>>
    /\ UNCHANGED <<cfg, bestResults, bestEngine, bestQuality, thrown>>

\* `await this.browserPool.closeAll()` settles (a rejection is caught and logged)
CloseAllDone ==
    /\ UNCHANGED extVars
    /\ pc = "closing"
    /\ Advance([attempts EXCEPT ![Len(attempts)].poolClosed = TRUE])
    /\ UNCHANGED <<clock, requestCount, lastResetTime, queued, lastWait>>
    /\ UNCHANGED <<cfg, bestResults, bestEngine, bestQuality, thrown>>

\* the caller takes the settled promise; the call's locals are gone
Settle ==
    /\ UNCHANGED extVars
    /\ pc \in {"returned", "rejected"}
    /\ pc' = "idle"
    /\ ClearedCall
    /\ outcome' = <<>>
    /\ thrown' = <<>>
    /\ UNCHANGED limiterVars

Next == Tick \/ SearchAdmit \/ SearchReject \/ SearchStart \/ BackendResolves
          \/ BackendThrows \/ CloseAllDone \/ Settle

Spec == Init /\ [][Next]_vars

NextLimiter == Tick \/ ExecuteAdmit \/ ExecuteReject \/ LimitStart \/ FnDone

SpecLimiter == Init /\ [][NextLimiter]_vars

----------------------------------------------------------------------------
\* utils.ts: isPdfUrl

\* A URL is kept as what isPdfUrl looks at: whether `new URL(url)` parses it,
\* the last four characters of its pathname and the last four of the raw string.
\*   page      https://example.com/a.html
\*   upperPdf  https://example.com/doc.PDF?dl=1
\*   queryPdf  https://example.com/view?f=a.pdf
\*   rawPdf    "not a url.pdf"
UrlSamples ==
    { [href |-> "page",     parses |-> TRUE,  pathTail |-> "html", rawTail |-> "html"],
      [href |-> "upperPdf", parses |-> TRUE,  pathTail |-> ".PDF", rawTail |-> "dl=1"],
      [href |-> "queryPdf", parses |-> TRUE,  pathTail |-> "view", rawTail |-> ".pdf"],
      [href |-> "rawPdf",   parses |-> FALSE, pathTail |-> "",     rawTail |-> ".pdf"] }

\* String.prototype.toLowerCase on the four-character tails that occur
ToLowerCase(tail) ==
    CASE tail = ".PDF" -> ".pdf"
      [] OTHER -> tail

IsPdfUrl_CaseSensitive(url) ==
    IF url.parses THEN url.pathTail = ".pdf" ELSE url.rawTail = ".pdf"

IsPdfUrl(url) ==
    IF url.parses
    THEN ToLowerCase(url.pathTail) = ".pdf"
    ELSE ToLowerCase(url.rawTail) = ".pdf"

----------------------------------------------------------------------------
\* EnhancedContentExtractor.extractContentForResults

\* what extractContent() rejects with inside a batch: the AxiosError of a 404,
\* which the fast path lets through
ExtractionErrors ==
    { [isError |-> TRUE, isAxiosError |-> TRUE, code |-> "ERR_BAD_REQUEST", status |-> 404,
       message |-> "Request failed with status code 404"] }

TimeoutError ==
    [isError |-> TRUE, isAxiosError |-> FALSE, code |-> "", status |-> 0,
     message |-> "Content extraction timeout"]

\* String.prototype.includes on the texts that occur
Includes(text, phrase) ==
    <<text, phrase>> \in
        { <<"timeout of 6000ms exceeded", "timeout">>,
          <<"Low quality content detected - likely bot detection",
            "Low quality content detected">>,
          <<"Please complete the captcha", "captcha">>,
          <<"maxContentLength size exceeded", "maxContentLength">>,
          <<"net::ERR_HTTP2_PROTOCOL_ERROR", "ERR_HTTP2_PROTOCOL_ERROR">>,
          <<"net::ERR_HTTP2_PROTOCOL_ERROR", "HTTP2">> }

GetSpecificErrorMessage(error) ==
    IF error.isAxiosError
    THEN CASE error.code = "ECONNABORTED" -> "Request timeout"
           [] error.status = 403 -> "403 Forbidden - Access denied"
           [] error.status = 404 -> "404 Not found"
           [] Includes(error.message, "maxContentLength") -> "Content too long"
           [] error.status # 0 -> "HTTP " \o ToString(error.status) \o ": " \o error.message
           [] OTHER -> "Network error: " \o error.message
    ELSE IF error.isError THEN error.message ELSE "Unknown error"

\* Array.prototype.slice(0, n) for n >= 0
Slice(list, n) == SubSeq(list, 1, IF n < Len(list) THEN n ELSE Len(list))

\* the argument `results`: result k carries its position as title and in its
\* description
Results(urls) ==
    [k \in 1..Len(urls) |-> [title |-> k, url |-> urls[k], description |-> <<"snippet", k>>]]

NotPdf(result) == ~IsPdfUrl(result.url)

NonPdfResults(results) == SelectSeq(results, NotPdf)

ProcessLimit(targetCount) == IF targetCount * 2 < 10 THEN targetCount * 2 ELSE 10

ResultsToProcess(results, targetCount) ==
    Slice(NonPdfResults(results), ProcessLimit(targetCount))

SuccessEntry(result) ==
    [title |-> result.title, url |-> result.url, description |-> result.description,
     fullContent |-> "cleanText(content)",
     contentPreview |-> "getContentPreview(cleanText(content))",
     wordCount |-> "getWordCount(cleanText(content))",
     fetchStatus |-> "success", error |-> ""]

\* variant: the error entry is built without the fields of `result`
ErrorEntry_NotSpread(result, error) ==
    [title |-> 0, url |-> result.url, description |-> <<>>,
     fullContent |-> "", contentPreview |-> "", wordCount |-> "0",
     fetchStatus |-> "error", error |-> GetSpecificErrorMessage(error)]

ErrorEntry(result, error) ==
    [title |-> result.title, url |-> result.url, description |-> result.description,
     fullContent |-> "", contentPreview |-> "", wordCount |-> "0",
     fetchStatus |-> "error", error |-> GetSpecificErrorMessage(error)]

IsSuccess(entry) == entry.fetchStatus = "success"

IsError(entry) == entry.fetchStatus = "error"

InputLists == UNION { [1..n -> UrlSamples] : n \in 0..MaxInput }

TargetCounts == 0..MaxTarget

\* Promise.race([extractionPromise, timeoutPromise]): the promises that can settle it
Racers_NoTimer == {"extraction"}

Racers == {"extraction", "timer"}

\* what the per-item async callback settles with once the race has settled
Callback_NoCatch(result, race) ==
    IF race.ok
    THEN [kind |-> "fulfilled", entry |-> SuccessEntry(result)]
    ELSE [kind |-> "rejected", entry |-> ErrorEntry(result, race.error)]

Callback(result, race) ==
    IF race.ok
    THEN [kind |-> "fulfilled", entry |-> SuccessEntry(result)]
    ELSE [kind |-> "fulfilled", entry |-> ErrorEntry(result, race.error)]

Pending(k) == bItems[k].settled = <<>>

\* Promise.all(extractionPromises): the entries in the order of resultsToProcess
AllResults_ByCompletion(items, order) ==
    [j \in 1..Len(order) |-> items[order[j]].settled[1].entry]

AllResults(items, order) ==
    [k \in 1..Len(items) |-> items[k].settled[1].entry]

Combine_InputOrder(allResults, targetCount) == Slice(allResults, targetCount)

Combine(allResults, targetCount) ==
    LET successfulResults == SelectSeq(allResults, IsSuccess)
        failedResults == SelectSeq(allResults, IsError)
        missing == IF targetCount - Len(successfulResults) > 0
                   THEN targetCount - Len(successfulResults) ELSE 0
    IN Slice(Slice(successfulResults, targetCount) \o Slice(failedResults, missing),
             targetCount)

\* extractContentForResults(results, targetCount) up to `await Promise.all`:
\* the filter, the slice, and the synchronous start of every callback
BatchDispatch ==
    /\ bPc = "idle"
    /\ \E urls \in InputLists, targetCount \in TargetCounts :
          /\ bInput' = Results(urls)
          /\ bTarget' = targetCount
          /\ bItems' = [k \in 1..Len(ResultsToProcess(Results(urls), targetCount)) |->
                          [result |-> ResultsToProcess(Results(urls), targetCount)[k],
                           started |-> TRUE, race |-> <<>>, settled |-> <<>>]]
    /\ bPc' = "waiting"
    /\ bOrder' = <<>>
    /\ bReturned' = <<>>
    /\ UNCHANGED notBatchVars

\* the race of item k settles with `race`; Promise.all rejects at once if the
\* callback rejects
RaceSettles(k, race) ==
    /\ bPc \in {"waiting", "rejected"}
    /\ Pending(k)
    /\ bItems' = [bItems EXCEPT ![k].race = <<race>>,
                                ![k].settled = <<Callback(bItems[k].result, race)>>]
    /\ bOrder' = Append(bOrder, k)
    /\ bPc' = IF Callback(bItems[k].result, race).kind = "rejected" THEN "rejected" ELSE bPc
    /\ UNCHANGED <<bInput, bTarget, bReturned, notBatchVars>>

\* extractContent() of item k resolves before the timer
ExtractionResolves ==
    \E k \in 1..Len(bItems) :
        /\ "extraction" \in Racers
        /\ RaceSettles(k, [by |-> "extraction", ok |-> TRUE, error |-> TimeoutError])

\* extractContent() of item k rejects before the timer
ExtractionRejects ==
    \E k \in 1..Len(bItems), error \in ExtractionErrors :
        /\ "extraction" \in Racers
        /\ RaceSettles(k, [by |-> "extraction", ok |-> FALSE, error |-> error])

\* the 8000 ms timer of item k fires before extractContent() settles
TimeoutFires(k) ==
    /\ k \in 1..Len(bItems)
    /\ "timer" \in Racers
    /\ RaceSettles(k, [by |-> "timer", ok |-> FALSE, error |-> TimeoutError])

AnyTimeoutFires == \E k \in 1..(2 * MaxTarget) : TimeoutFires(k)

\* Promise.all has resolved: partition, combine, return
BatchReturn ==
    /\ bPc = "waiting"
    /\ \A k \in 1..Len(bItems) : ~Pending(k)
    /\ bReturned' = Combine(AllResults(bItems, bOrder), bTarget)
    /\ bPc' = "returned"
    /\ UNCHANGED <<bInput, bTarget, bItems, bOrder, notBatchVars>>

NextBatch == BatchDispatch \/ ExtractionResolves \/ ExtractionRejects
               \/ AnyTimeoutFires \/ BatchReturn

SpecBatch == Init /\ [][NextBatch]_vars

\* timers fire and a resolved Promise.all is resumed; nothing obliges an
\* extraction to settle
SpecBatchFair ==
    /\ SpecBatch
    /\ \A k \in 1..(2 * MaxTarget) : WF_vars(TimeoutFires(k))
    /\ WF_vars(BatchReturn)

----------------------------------------------------------------------------
\* extractContent: ContentExtractor and EnhancedContentExtractor

Extractors == {"ContentExtractor", "EnhancedContentExtractor"}

\* a URL as shouldUseBrowser sees it: whether the string contains one of
\* twitter.com, facebook.com, instagram.com, linkedin.com, reddit.com, medium.com
FetchUrls ==
    { [href |-> "page", jsHeavy |-> FALSE],
      [href |-> "reddit.com/r/x", jsHeavy |-> TRUE] }

\* options.maxContentLength; 0 is falsy, so nothing is truncated
MaxContentLengths == {0, 80, 200}

\* parsed page text: its length and the bot-challenge phrase it holds, if any
PageContents ==
    { [length |-> 500, marker |-> ""],
      [length |-> 50, marker |-> ""],
      [length |-> 500, marker |-> "captcha"] }

\* errors axios.get rejects with
AxiosErrors ==
    { [isError |-> TRUE, isAxiosError |-> TRUE, code |-> "ERR_BAD_REQUEST",
       status |-> st, message |-> "Request failed with status code", data |-> ""] :
         st \in {403, 404, 429} }
    \cup
    { [isError |-> TRUE, isAxiosError |-> TRUE, code |-> "ERR_BAD_RESPONSE",
       status |-> 503, message |-> "Request failed with status code", data |-> ""],
      [isError |-> TRUE, isAxiosError |-> TRUE, code |-> "ERR_BAD_REQUEST",
       status |-> 404, message |-> "Request failed with status code",
       data |-> "Please complete the captcha"],
      [isError |-> TRUE, isAxiosError |-> TRUE, code |-> "ECONNABORTED",
       status |-> 0, message |-> "timeout of 6000ms exceeded", data |-> ""],
      [isError |-> TRUE, isAxiosError |-> TRUE, code |-> "ENOTFOUND",
       status |-> 0, message |-> "getaddrinfo ENOTFOUND", data |-> ""] }

LowQualityError ==
    [isError |-> TRUE, isAxiosError |-> FALSE, code |-> "", status |-> 0,
     message |-> "Low quality content detected - likely bot detection", data |-> ""]

BothFailedError ==
    [isError |-> TRUE, isAxiosError |-> FALSE, code |-> "", status |-> 0,
     message |-> "Both axios and browser extraction failed", data |-> ""]

\* `Failed to extract content from ${url}: ${getSpecificErrorMessage(error)}`
FailedToExtractError(error) ==
    [isError |-> TRUE, isAxiosError |-> FALSE, code |-> "", status |-> 0,
     message |-> "Failed to extract content: " \o GetSpecificErrorMessage(error),
     data |-> ""]

Truncate(content, maxContentLength) ==
    IF maxContentLength # 0 /\ content.length > maxContentLength
    THEN [content EXCEPT !.length = maxContentLength]
    ELSE content

IsLowQualityContent(content) ==
    \/ content.length < 100
    \/ content.marker \in {"Please enable JavaScript", "Access Denied", "403 Forbidden",
                           "captcha", "unusual traffic", "robot"}
    \/ content.length = 0

ShouldUseBrowser_No403(error, url) ==
    \/ error.status \in {429, 503}
    \/ \E phrase \in {"timeout", "Access denied", "Forbidden", "Low quality content detected"} :
          Includes(error.message, phrase)
    \/ \E phrase \in {"Please enable JavaScript", "captcha", "unusual traffic", "robot"} :
          Includes(error.data, phrase)
    \/ url.jsHeavy

ShouldUseBrowser_StatusOnly(error, url) == error.status \in {403, 429, 503}

ShouldUseBrowser(error, url) ==
    \/ error.status \in {403, 429, 503}
    \/ \E phrase \in {"timeout", "Access denied", "Forbidden", "Low quality content detected"} :
          Includes(error.message, phrase)
    \/ \E phrase \in {"Please enable JavaScript", "captcha", "unusual traffic", "robot"} :
          Includes(error.data, phrase)
    \/ url.jsHeavy

\* what one fast-path request comes to: a response with parsed text, or an error
FastOutcomes ==
    { [ok |-> TRUE, content |-> c, error |-> LowQualityError] : c \in PageContents }
    \cup { [ok |-> FALSE, content |-> [length |-> 0, marker |-> ""], error |-> e] :
             e \in AxiosErrors }

\* extractWithAxios after the response: truncate, then reject low quality
ExtractWithAxios(out, maxContentLength) ==
    IF ~out.ok THEN out
    ELSE IF IsLowQualityContent(Truncate(out.content, maxContentLength))
         THEN [ok |-> FALSE, content |-> Truncate(out.content, maxContentLength),
               error |-> LowQualityError]
         ELSE [ok |-> TRUE, content |-> Truncate(out.content, maxContentLength),
               error |-> LowQualityError]

\* the awaited calls of extractWithBrowser, in order, and those of its HTTP/1.1 branch
MainSteps == <<"getBrowser", "newContext", "addInitScript", "newPage", "route", "goto",
               "mouseMove", "waitForTimeout", "waitForSelector", "content", "close">>

Http1Steps == <<"h1CloseFirst", "h1NewContext", "h1NewPage", "h1Route", "h1Goto",
                "h1Content", "h1Close">>

SlowSteps == { MainSteps[n] : n \in 1..Len(MainSteps) }
                 \cup { Http1Steps[n] : n \in 1..Len(Http1Steps) }

\* closing a context is taken to succeed
ThrowingSteps == SlowSteps \ {"close", "h1CloseFirst", "h1Close"}

StepErrors == {"net::ERR_HTTP2_PROTOCOL_ERROR", "Timeout 8000ms exceeded"}

Following(steps, step) ==
    LET n == CHOOSE m \in 1..Len(steps) : steps[m] = step
    IN IF n < Len(steps) THEN steps[n + 1] ELSE "return"

StepAfter(step) ==
    IF \E m \in 1..Len(MainSteps) : MainSteps[m] = step
    THEN Following(MainSteps, step)
    ELSE Following(Http1Steps, step)

\* variant: the HTTP/1.1 branch leaves the first context open
OpenAfter_KeepsFirst(step, open) ==
    CASE step = "newContext" -> open \cup {"context"}
      [] step = "close" -> open \ {"context"}
      [] step = "h1NewContext" -> open \cup {"http1Context"}
      [] step = "h1Close" -> open \ {"http1Context"}
      [] OTHER -> open

\* the contexts open after `step` has succeeded
OpenAfter(step, open) ==
    CASE step = "newContext" -> open \cup {"context"}
      [] step \in {"close", "h1CloseFirst"} -> open \ {"context"}
      [] step = "h1NewContext" -> open \cup {"http1Context"}
      [] step = "h1Close" -> open \ {"http1Context"}
      [] OTHER -> open

\* ContentExtractor: axios.get with maxContentLength, then parseContent
AxiosGetWithLimit(out, maxContentLength) ==
    IF out.ok /\ out.content.length > maxContentLength
    THEN [ok |-> FALSE, content |-> out.content,
          error |-> [isError |-> TRUE, isAxiosError |-> TRUE, code |-> "ERR_BAD_RESPONSE",
                     status |-> 0, message |-> "maxContentLength size exceeded",
                     data |-> ""]]
    ELSE out

\* ContentExtractor: the error that makes it try the alternative headers
IsForbidden(error) == error.isAxiosError /\ error.status = 403

RenderedContent == [length |-> 500, marker |-> ""]

Resolved(content) == [ok |-> TRUE, content |-> content, error |-> LowQualityError]

Rejected(error) == [ok |-> FALSE, content |-> [length |-> 0, marker |-> ""], error |-> error]

\* extractContent(options) up to its first await: the fast-path request is sent
ExtractContentCall ==
    /\ fPc = "idle"
    /\ \E extractor \in Extractors, url \in FetchUrls, maxContentLength \in MaxContentLengths :
          /\ fExtractor' = extractor
          /\ fUrl' = url
          /\ fMaxLen' = maxContentLength
    /\ fPc' = "fast"
    /\ fFast' = <<>>
    /\ fSlow' = 0
    /\ fOpen' = {}
    /\ fResult' = <<>>
    /\ fNav' = <<>>
    /\ UNCHANGED notFetchVars

\* the first fast-path request settles
FastSettles ==
    /\ fPc = "fast"
    /\ \E out \in FastOutcomes :
          IF fExtractor = "EnhancedContentExtractor"
          THEN LET r == ExtractWithAxios(out, fMaxLen)
               IN /\ fFast' = Append(fFast, [headers |-> "random", out |-> r])
                  /\ IF r.ok
                     THEN fPc' = "resolved" /\ fResult' = <<Resolved(r.content)>>
                                            /\ fSlow' = fSlow
                     ELSE IF ShouldUseBrowser(r.error, fUrl)
                          THEN fPc' = "getBrowser" /\ fSlow' = fSlow + 1
                                                   /\ fResult' = fResult
                          ELSE fPc' = "rejected" /\ fResult' = <<Rejected(r.error)>>
                                                 /\ fSlow' = fSlow
          ELSE LET r == AxiosGetWithLimit(out, fMaxLen)
               IN /\ fFast' = Append(fFast, [headers |-> "primary", out |-> r])
                  /\ fSlow' = fSlow
                  /\ IF r.ok
                     THEN fPc' = "resolved" /\ fResult' = <<Resolved(r.content)>>
                     ELSE IF IsForbidden(r.error)
                          THEN fPc' = "fastRetry" /\ fResult' = fResult
                          ELSE fPc' = "rejected"
                               /\ fResult' = <<Rejected(FailedToExtractError(r.error))>>
    /\ UNCHANGED <<fExtractor, fUrl, fMaxLen, fOpen, fNav, notFetchVars>>

\* ContentExtractor: the request with the alternative headers settles
FastRetrySettles ==
    /\ fPc = "fastRetry"
    /\ \E out \in FastOutcomes :
          LET r == AxiosGetWithLimit(out, fMaxLen)
          IN /\ fFast' = Append(fFast, [headers |-> "alternate", out |-> r])
             /\ IF r.ok
                THEN fPc' = "resolved" /\ fResult' = <<Resolved(r.content)>>
                ELSE fPc' = "rejected"
                     /\ fResult' = <<Rejected(FailedToExtractError(fFast[1].out.error))>>
    /\ UNCHANGED <<fExtractor, fUrl, fMaxLen, fSlow, fOpen, fNav, notFetchVars>>

\* an awaited call of extractWithBrowser resolves
SlowStepSucceeds ==
    /\ fPc \in SlowSteps
    /\ fOpen' = OpenAfter(fPc, fOpen)
    /\ IF StepAfter(fPc) = "return"
       THEN fPc' = "resolved" /\ fResult' = <<Resolved(RenderedContent)>>
       ELSE fPc' = StepAfter(fPc) /\ fResult' = fResult
    /\ fNav' = IF fPc \in {"goto", "h1Goto"}
               THEN Append(fNav, [context |-> IF fPc = "goto" THEN "context" ELSE "http1Context",
                                  error |-> ""])
               ELSE fNav
    /\ UNCHANGED <<fExtractor, fUrl, fMaxLen, fFast, fSlow, notFetchVars>>

\* an awaited call of extractWithBrowser rejects
SlowStepThrows ==
    /\ fPc \in ThrowingSteps
    /\ \E message \in StepErrors :
          /\ fNav' = IF fPc \in {"goto", "h1Goto"}
                     THEN Append(fNav, [context |-> IF fPc = "goto" THEN "context"
                                                    ELSE "http1Context",
                                        error |-> message])
                     ELSE fNav
          /\ IF fPc = "waitForSelector"
             THEN fPc' = "content" /\ fResult' = fResult
             ELSE IF fPc = "goto" /\ (\/ Includes(message, "ERR_HTTP2_PROTOCOL_ERROR")
                                      \/ Includes(message, "HTTP2"))
                  THEN fPc' = "h1CloseFirst" /\ fResult' = fResult
                  ELSE fPc' = "rejected" /\ fResult' = <<Rejected(BothFailedError)>>
    /\ UNCHANGED <<fExtractor, fUrl, fMaxLen, fFast, fSlow, fOpen, notFetchVars>>

NextFetch == ExtractContentCall \/ FastSettles \/ FastRetrySettles
               \/ SlowStepSucceeds \/ SlowStepThrows

SpecFetch == Init /\ [][NextFetch]_vars

----------------------------------------------------------------------------
\* BrowserPool

Callers == {"first", "second"}

\* MAX_BROWSERS and BROWSER_TYPES as the constructor reads them: the defaults,
\* a pool limited to one browser, and a pool of one family
PoolConfigs ==
    { [maxBrowsers |-> 3, browserTypes |-> <<"chromium", "firefox">>],
      [maxBrowsers |-> 1, browserTypes |-> <<"chromium", "firefox">>],
      [maxBrowsers |-> 3, browserTypes |-> <<"chromium">>] }

\* Map.prototype.has / get / set / delete on the entries in insertion order
Has(map, type) == \E n \in 1..Len(map) : map[n].type = type

Get(map, type) == map[CHOOSE n \in 1..Len(map) : map[n].type = type].id

MapSet(map, type, id) ==
    IF Has(map, type)
    THEN [n \in 1..Len(map) |-> IF map[n].type = type THEN [type |-> type, id |-> id]
                                ELSE map[n]]
    ELSE Append(map, [type |-> type, id |-> id])

MapDelete_Keep(map, type) == map

MapDelete(map, type) == SelectSeq(map, LAMBDA e : e.type # type)

Values(map) == { map[n].id : n \in 1..Len(map) }

\* the rotation of getBrowser
NextBrowserType(config, index) ==
    config.browserTypes[(index % Len(config.browserTypes)) + 1]

\* new BrowserPool()
NewBrowserPool ==
    /\ poolConfig = <<>>
    /\ \E config \in PoolConfigs : poolConfig' = <<config>>
    /\ UNCHANGED <<browsers, currentBrowserIndex, lastUsedBrowserType, launchCount,
                   connected, closeInvoked, calls, cPc, cHeld, cPending, cHung,
                   notPoolVars>>

\* a browser process dies or loses its connection
Disconnect ==
    /\ \E b \in connected : connected' = connected \ {b}
    /\ UNCHANGED <<poolConfig, browsers, currentBrowserIndex, lastUsedBrowserType,
                   launchCount, closeInvoked, calls, cPc, cHeld, cPending, cHung,
                   notPoolVars>>

\* may the held browser be reused, subject to the probe
Reusable(map, type) == Has(map, type) /\ Get(map, type) \in connected

\* getBrowser() up to its first await: rotate, then either probe the held
\* browser of the family or start a launch
GetBrowserCall(c) ==
    /\ poolConfig # <<>>
    /\ calls[c].pc \in {"idle", "returned", "failed"}
    /\ currentBrowserIndex < MaxCalls
    /\ LET type == NextBrowserType(poolConfig[1], currentBrowserIndex)
       IN /\ currentBrowserIndex' = currentBrowserIndex + 1
          /\ lastUsedBrowserType' = type
          /\ calls' = [calls EXCEPT ![c] =
                IF Reusable(browsers, type)
                THEN [pc |-> "probeOpen", type |-> type, held |-> Get(browsers, type),
                      probe |-> "none", fresh |-> 0, evicted |-> 0, evictedType |-> "", returned |-> 0]
                ELSE [pc |-> "launching", type |-> type,
                      held |-> IF Has(browsers, type) THEN Get(browsers, type) ELSE 0,
                      probe |-> IF Has(browsers, type) THEN "disconnected" ELSE "absent",
                      fresh |-> 0, evicted |-> 0, evictedType |-> "", returned |-> 0]]
    /\ UNCHANGED <<poolConfig, browsers, launchCount, connected, closeInvoked,
                   cPc, cHeld, cPending, cHung, notPoolVars>>

\* the catch of the health check: drop the entry of the family, close the browser
HealthCheckFailed(c) ==
    /\ browsers' = MapDelete(browsers, calls[c].type)
    /\ closeInvoked' = closeInvoked \cup {calls[c].held}
    /\ calls' = [calls EXCEPT ![c].pc = "closeUnhealthy", ![c].probe = "failed"]

\* browser.newContext() of the health check settles
ProbeOpenSettles(c) ==
    /\ calls[c].pc = "probeOpen"
    /\ \E ok \in (IF calls[c].held \in connected THEN BOOLEAN ELSE {FALSE}) :
          IF ok
          THEN /\ calls' = [calls EXCEPT ![c].pc = "probeClose"]
               /\ UNCHANGED <<browsers, closeInvoked>>
          ELSE HealthCheckFailed(c)
    /\ UNCHANGED <<poolConfig, currentBrowserIndex, lastUsedBrowserType, launchCount,
                   connected, cPc, cHeld, cPending, cHung, notPoolVars>>

\* testContext.close() of the health check settles
ProbeCloseSettles(c) ==
    /\ calls[c].pc = "probeClose"
    /\ \E ok \in (IF calls[c].held \in connected THEN BOOLEAN ELSE {FALSE}) :
          IF ok
          THEN /\ calls' = [calls EXCEPT ![c].pc = "returned", ![c].probe = "passed",
                                         ![c].returned = calls[c].held]
               /\ UNCHANGED <<browsers, closeInvoked>>
          ELSE HealthCheckFailed(c)
    /\ UNCHANGED <<poolConfig, currentBrowserIndex, lastUsedBrowserType, launchCount,
                   connected, cPc, cHeld, cPending, cHung, notPoolVars>>

\* close() of the unhealthy browser settles (a rejection is swallowed); the
\* launch is started
CloseUnhealthySettles(c) ==
    /\ calls[c].pc = "closeUnhealthy"
    /\ \E ok \in BOOLEAN :
          connected' = IF ok THEN connected \ {calls[c].held} ELSE connected
    /\ calls' = [calls EXCEPT ![c].pc = "launching"]
    /\ UNCHANGED <<poolConfig, browsers, currentBrowserIndex, lastUsedBrowserType,
                   launchCount, closeInvoked, cPc, cHeld, cPending, cHung, notPoolVars>>

\* the launch settles: on success the browser is stored under its family and, if
\* the map has grown past maxBrowsers, the close of its first entry is started
LaunchSettles(c) ==
    /\ calls[c].pc = "launching"
    /\ \E ok \in BOOLEAN :
          IF ok
          THEN LET id == launchCount + 1
                   map == MapSet(browsers, calls[c].type, id)
               IN /\ launchCount' = id
                  /\ connected' = connected \cup {id}
                  /\ browsers' = map
                  /\ IF Len(map) > poolConfig[1].maxBrowsers
                     THEN /\ closeInvoked' = closeInvoked \cup {map[1].id}
                          /\ calls' = [calls EXCEPT ![c].pc = "evicting", ![c].fresh = id,
                                                    ![c].evicted = map[1].id,
                                                    ![c].evictedType = map[1].type]
                     ELSE /\ closeInvoked' = closeInvoked
                          /\ calls' = [calls EXCEPT ![c].pc = "returned", ![c].fresh = id,
                                                    ![c].returned = id]
          ELSE /\ calls' = [calls EXCEPT ![c].pc = "failed"]
               /\ UNCHANGED <<launchCount, connected, browsers, closeInvoked>>
    /\ UNCHANGED <<poolConfig, currentBrowserIndex, lastUsedBrowserType,
                   cPc, cHeld, cPending, cHung, notPoolVars>>

\* close() of the oldest browser settles (a rejection is swallowed); its key is
\* deleted and the launched browser returned
EvictSettles(c) ==
    /\ calls[c].pc = "evicting"
    /\ \E ok \in BOOLEAN :
          connected' = IF ok THEN connected \ {calls[c].evicted} ELSE connected
    /\ browsers' = MapDelete(browsers, calls[c].evictedType)
    /\ calls' = [calls EXCEPT ![c].pc = "returned", ![c].returned = calls[c].fresh]
    /\ UNCHANGED <<poolConfig, currentBrowserIndex, lastUsedBrowserType, launchCount,
                   closeInvoked, cPc, cHeld, cPending, cHung, notPoolVars>>

\* closeAll() up to `await Promise.all`: close() is called on every value of the
\* map; each of these closes will settle or never will
CloseAllCall ==
    /\ poolConfig # <<>>
    /\ cPc = "idle"
    /\ \E hung \in SUBSET Values(browsers) :
          /\ cHung' = hung
          /\ cPending' = Values(browsers) \ hung
    /\ cHeld' = Values(browsers)
    /\ closeInvoked' = closeInvoked \cup Values(browsers)
    /\ cPc' = "awaiting"
    /\ UNCHANGED <<poolConfig, browsers, currentBrowserIndex, lastUsedBrowserType,
                   launchCount, connected, calls, notPoolVars>>

\* one close of closeAll() settles; its rejection is caught and logged
CloseSettles(b) ==
    /\ b \in cPending
    /\ cPending' = cPending \ {b}
    /\ \E ok \in BOOLEAN : connected' = IF ok THEN connected \ {b} ELSE connected
    /\ UNCHANGED <<poolConfig, browsers, currentBrowserIndex, lastUsedBrowserType,
                   launchCount, closeInvoked, calls, cPc, cHeld, cHung, notPoolVars>>

\* Promise.all has resolved: the map is cleared
CloseAllFinish ==
    /\ cPc = "awaiting"
    /\ cPending = {}
    /\ cHung = {}
    /\ browsers' = <<>>
    /\ cPc' = "done"
    /\ UNCHANGED <<poolConfig, currentBrowserIndex, lastUsedBrowserType, launchCount,
                   connected, closeInvoked, calls, cHeld, cPending, cHung, notPoolVars>>

NextPool ==
    \/ NewBrowserPool
    \/ Disconnect
    \/ \E c \in Callers : GetBrowserCall(c)
    \/ \E c \in Callers : ProbeOpenSettles(c)
    \/ \E c \in Callers : ProbeCloseSettles(c)
    \/ \E c \in Callers : CloseUnhealthySettles(c)
    \/ \E c \in Callers : LaunchSettles(c)
    \/ \E c \in Callers : EvictSettles(c)
    \/ CloseAllCall
    \/ \E b \in 1..MaxCalls : CloseSettles(b)
    \/ CloseAllFinish

SpecPool == Init /\ [][NextPool]_vars

----------------------------------------------------------------------------
\* URLs of search results (SearchEngine.isValidSearchUrl and the clean*Url steps)
\*
\* A string is the sequence of its characters. A run of letters that plays no part
\* in any escape ("https", "duckduckgo", "p") is written as one element; the
\* characters of an escape (%, 2, 5, A, ...) are one element each.

\* String.prototype.startsWith
StartsWith(s, prefix) ==
    /\ Len(s) >= Len(prefix)
    /\ SubSeq(s, 1, Len(prefix)) = prefix

\* the characters percent-escapes stand for, as <<character, hex digit, hex digit>>
PercentCodes ==
    { <<":", "3", "A">>, <<"/", "2", "F">>, <<"?", "3", "F">>, <<"=", "3", "D">>,
      <<"&", "2", "6">>, <<"%", "2", "5">>, <<"+", "2", "B">>, <<"\"", "2", "2">>,
      <<"R", "5", "2">>, <<"U", "5", "5">> }

\* decodeURIComponent(s): the decoded string, or a URIError when a % is not
\* followed by two hex digits
DecodeURIComponent(s) ==
    LET Escaped(t) == /\ Len(t) >= 3
                      /\ \E c \in PercentCodes : c[2] = t[2] /\ c[3] = t[3]
        CharOf(t) == (CHOOSE c \in PercentCodes : c[2] = t[2] /\ c[3] = t[3])[1]
        RECURSIVE Malformed(_)
        Malformed(t) ==
            IF t = <<>> THEN FALSE
            ELSE IF Head(t) # "%" THEN Malformed(Tail(t))
            ELSE IF Escaped(t) THEN Malformed(SubSeq(t, 4, Len(t)))
            ELSE TRUE
        RECURSIVE Decoded(_)
        Decoded(t) ==
            IF t = <<>> THEN <<>>
            ELSE IF Head(t) = "%" THEN <<CharOf(t)>> \o Decoded(SubSeq(t, 4, Len(t)))
            ELSE <<Head(t)>> \o Decoded(Tail(t))
    IN  IF Malformed(s) THEN [threw |-> TRUE, value |-> <<>>]
        ELSE [threw |-> FALSE, value |-> Decoded(s)]

\* new URLSearchParams(query).get(name): <<value>> of the first pair called
\* `name`, <<>> (null) when there is none. Pairs are separated by &, name and
\* value by the first =, + is a space, and escapes are decoded leniently: a %
\* that starts no escape stays as it is.
URLSearchParamsGet(query, name) ==
    LET Escaped(t) == /\ Len(t) >= 3
                      /\ \E c \in PercentCodes : c[2] = t[2] /\ c[3] = t[3]
        CharOf(t) == (CHOOSE c \in PercentCodes : c[2] = t[2] /\ c[3] = t[3])[1]
        RECURSIVE Decoded(_)
        Decoded(t) ==
            IF t = <<>> THEN <<>>
            ELSE IF Head(t) = "%" /\ Escaped(t)
                 THEN <<CharOf(t)>> \o Decoded(SubSeq(t, 4, Len(t)))
            ELSE IF Head(t) = "+" THEN <<" ">> \o Decoded(Tail(t))
            ELSE <<Head(t)>> \o Decoded(Tail(t))
        \* position of the first `ch` of t, Len(t) + 1 when it has none
        IndexOf(t, ch) ==
            IF \E k \in 1..Len(t) : t[k] = ch
            THEN CHOOSE k \in 1..Len(t) : t[k] = ch /\ \A j \in 1..(k - 1) : t[j] # ch
            ELSE Len(t) + 1
        RECURSIVE Lookup(_)
        Lookup(t) ==
            IF t = <<>> THEN <<>>
            ELSE LET pair == SubSeq(t, 1, IndexOf(t, "&") - 1)
                     rest == SubSeq(t, IndexOf(t, "&") + 1, Len(t))
                     key == SubSeq(pair, 1, IndexOf(pair, "=") - 1)
                     val == SubSeq(pair, IndexOf(pair, "=") + 1, Len(pair))
                 IN  IF pair # <<>> /\ Decoded(key) = name
                     THEN <<Decoded(val)>>
                     ELSE Lookup(rest)
    IN  Lookup(query)

\* SearchEngine.isValidSearchUrl
IsValidSearchUrl(url) ==
    LET RECURSIVE Length(_)
        Length(t) == IF t = <<>> THEN 0 ELSE Len(Head(t)) + Length(Tail(t))
        Contains(t, part) ==
            \E k \in 1..Len(t) : StartsWith(SubSeq(t, k, Len(t)), part)
    IN  \/ StartsWith(url, <<"/", "url", "?">>)
        \/ StartsWith(url, <<"http", ":", "/", "/">>)
        \/ StartsWith(url, <<"https", ":", "/", "/">>)
        \/ StartsWith(url, <<"/", "/">>)
        \/ StartsWith(url, <<"/", "search", "?">>)
        \/ StartsWith(url, <<"/">>)
        \/ Contains(url, <<"google", ".", "com">>)
        \/ Length(url) > 10

\* SearchEngine.cleanGoogleUrl
CleanGoogleUrl(url) ==
    LET urlParams == SubSeq(url, 4, Len(url))
        q == URLSearchParamsGet(urlParams, <<"q">>)
        u == URLSearchParamsGet(urlParams, <<"url">>)
        actualUrl == IF q # <<>> /\ q[1] # <<>> THEN q ELSE u
    IN  IF StartsWith(url, <<"/", "url", "?">>) /\ actualUrl # <<>> /\ actualUrl[1] # <<>>
        THEN actualUrl[1]
        ELSE IF StartsWith(url, <<"/", "/">>) THEN <<"https", ":">> \o url
        ELSE url

\* SearchEngine.cleanBraveUrl and SearchEngine.cleanBingUrl, which are the same
CleanDirectUrl(url) ==
    IF StartsWith(url, <<"/", "/">>) THEN <<"https", ":">> \o url ELSE url

\* SearchEngine.cleanDuckDuckGoUrl
CleanDuckDuckGoUrl(url) ==
    LET \* url.indexOf('?') + 1, which is 0 when url has no ?
        from == IF \E k \in 1..Len(url) : url[k] = "?"
                THEN (CHOOSE k \in 1..Len(url) : url[k] = "?"
                         /\ \A j \in 1..(k - 1) : url[j] # "?") + 1
                ELSE 1
        actualUrl == URLSearchParamsGet(SubSeq(url, from, Len(url)), <<"uddg">>)
        decodedUrl == DecodeURIComponent(actualUrl[1])
    IN  IF /\ StartsWith(url, <<"/", "/", "duckduckgo", ".", "com", "/", "l", "/">>)
           /\ actualUrl # <<>> /\ actualUrl[1] # <<>>
           /\ ~decodedUrl.threw
        THEN decodedUrl.value
        ELSE IF StartsWith(url, <<"/", "/">>) THEN <<"https", ":">> \o url
        ELSE url

----------------------------------------------------------------------------
\* The result parsers (SearchEngine.parseBingResults, parseBraveResults,
\* parseDuckDuckGoResults)
\*
\* A page is the sequence of its result blocks in document order. A block is
\* described by what the selectors of the parser find in it: `marks` holds the
\* indices of the engine's container selectors that match the block, `title`
\* and `href` are the text and the href of the link its title selectors find.

\* the container selectors each parser tries, in order
ResultSelectors(engine) ==
    CASE engine = "bing" -> <<".b_algo", ".b_result", ".b_card">>
      [] engine = "brave" -> <<"[data-type=\"web\"]", ".result", ".fdb">>
      [] engine = "duckduckgo" -> <<".result">>

\* the pages given to the parsers. The links their blocks carry are an absolute
\* link, a site-relative one, a script link, a short link of another scheme,
\* and a DuckDuckGo redirect; one kind of block has no title text.
Pages ==
    LET hrefs ==
            { <<"https", ":", "/", "/", "x", "/", "p">>,
              <<"/", "p">>,
              <<"javascript", ":", "void", "(", "0", ")">>,
              <<"ftp", ":", "x">>,
              <<"/", "/", "duckduckgo", ".", "com", "/", "l", "/", "?", "uddg", "=",
                "https", "%", "3", "A", "%", "2", "F", "%", "2", "F", "x", "%", "2", "F", "p">> }
        blocks ==
            { [marks |-> m, title |-> "T", href |-> h] : m \in {{1}, {1, 2}, {3}}, h \in hrefs }
            \cup { [marks |-> {1}, title |-> "",
                    href |-> <<"https", ":", "/", "/", "x", "/", "p">>] }
    IN  UNION { [1..n -> blocks] : n \in 0..MaxBlocks }

\* the guard at the head of every .each() callback
EachStops_Never(results, maxResults) == FALSE

EachStops(results, maxResults) == Len(results) >= maxResults

\* the condition under which a block becomes a result
Accepts(engine, b) ==
    IF engine = "duckduckgo"
    THEN b.title # "" /\ b.href # <<>>
    ELSE b.title # "" /\ b.href # <<>> /\ IsValidSearchUrl(b.href)

\* parseXxxResults(html, maxResults) is called
ParseCall ==
    /\ pPc = "idle"
    /\ \E e \in {"bing", "brave", "duckduckgo"}, h \in Pages, m \in 0..MaxCap :
          /\ pEngine' = e
          /\ pHtml' = h
          /\ pMaxResults' = m
    /\ pSelector' = 1
    /\ pElement' = 0
    /\ pResults' = <<>>
    /\ pFound' = FALSE
    /\ pPc' = "selector"
    /\ UNCHANGED notParseVars

\* the head of the loop over the container selectors
TrySelector ==
    /\ pPc = "selector"
    /\ IF \/ pSelector > Len(ResultSelectors(pEngine))
          \/ pFound /\ Len(pResults) >= pMaxResults
       THEN pPc' = "done" /\ pElement' = pElement
       ELSE pPc' = "each" /\ pElement' = 1
    /\ UNCHANGED <<pEngine, pHtml, pMaxResults, pSelector, pResults, pFound, notParseVars>>

\* one call of the .each() callback, or the end of .each()
EachElement ==
    /\ pPc = "each"
    /\ LET \* $(selector): the blocks the container selector matches
           Matches(b) == pSelector \in b.marks
           elements == SelectSeq(pHtml, Matches)
           \* the record pushed for a block
           ResultOf(b) ==
               [title |-> b.title,
                url |-> IF pEngine = "duckduckgo" THEN CleanDuckDuckGoUrl(b.href)
                        ELSE CleanDirectUrl(b.href)]
       IN  IF pElement > Len(elements) \/ EachStops(pResults, pMaxResults)
           THEN /\ pSelector' = pSelector + 1
                /\ pPc' = "selector"
                /\ UNCHANGED <<pElement, pResults, pFound>>
           ELSE /\ pElement' = pElement + 1
                /\ IF Accepts(pEngine, elements[pElement])
                   THEN /\ pResults' = Append(pResults, ResultOf(elements[pElement]))
                        /\ pFound' = (pEngine # "duckduckgo")
                   ELSE UNCHANGED <<pResults, pFound>>
                /\ UNCHANGED <<pSelector, pPc>>
    /\ UNCHANGED <<pEngine, pHtml, pMaxResults, notParseVars>>

\* return results
ParseReturn ==
    /\ pPc = "done"
    /\ pPc' = "returned"
    /\ UNCHANGED <<pEngine, pHtml, pMaxResults, pSelector, pElement, pResults, pFound,
                   notParseVars>>

NextParse == ParseCall \/ TrySelector \/ EachElement \/ ParseReturn

SpecParse == Init /\ [][NextParse]_vars

----------------------------------------------------------------------------
\* Calls followed from their arguments to their result
\*
\* fnCall holds the function or tool called and its arguments, fnResult what the
\* call returned.

\* the links given to the URL-cleaning step `fn`. Each is made from a destination
\* `from`, an absolute URL whose escapes are well-formed: the destination itself,
\* its protocol-relative form, or the engine's redirect to it, which carries
\* encodeURIComponent(destination) in the uddg (DuckDuckGo) or q (Google) parameter.
Links(fn) ==
    LET tails == UNION { [1..n -> {"p", "%", "2", "5", "?", "="}] : n \in 0..MaxTail }
        destinations ==
            { u \in { <<s, ":", "/", "/", "x", "/">> \o t : s \in {"http", "https"}, t \in tails } :
                 ~DecodeURIComponent(u).threw }
        Unreserved(ch) == \A c \in PercentCodes : c[1] # ch \/ ch \in {"R", "U"}
        CodeOf(ch) == CHOOSE c \in PercentCodes : c[1] = ch
        RECURSIVE EncodeURIComponent(_)
        EncodeURIComponent(t) ==
            IF t = <<>> THEN <<>>
            ELSE IF Unreserved(Head(t)) THEN <<Head(t)>> \o EncodeURIComponent(Tail(t))
            ELSE <<"%", CodeOf(Head(t))[2], CodeOf(Head(t))[3]>> \o EncodeURIComponent(Tail(t))
        prefix == IF fn = "cleanDuckDuckGoUrl"
                  THEN <<"/", "/", "duckduckgo", ".", "com", "/", "l", "/", "?", "uddg", "=">>
                  ELSE <<"/", "url", "?", "q", "=">>
    IN  { [fn |-> fn, kind |-> "redirect", from |-> u,
           url |-> prefix \o EncodeURIComponent(u)] : u \in destinations }
        \cup { [fn |-> fn, kind |-> "direct", from |-> u, url |-> u] : u \in destinations }
        \cup { [fn |-> fn, kind |-> "relative", from |-> u, url |-> Tail(Tail(u))] :
                  u \in destinations }

\* cleanDuckDuckGoUrl(url) or cleanGoogleUrl(url) is called and returns
CleanUrlCall ==
    /\ fnCall.fn = "none"
    /\ \E fn \in {"cleanDuckDuckGoUrl", "cleanGoogleUrl"} : \E link \in Links(fn) :
          /\ fnCall' = link
          /\ fnResult' = << IF link.fn = "cleanDuckDuckGoUrl"
                            THEN CleanDuckDuckGoUrl(link.url)
                            ELSE CleanGoogleUrl(link.url) >>
    /\ UNCHANGED notCallVars

\* Text is the sequence of its characters; the word "image" is written as one
\* element, since no function here looks inside it.

\* utils.ts STOP_WORDS
STOP_WORDS ==
    { "a", "an", "and", "are", "as", "at", "be", "by", "for", "from",
      "has", "he", "in", "is", "it", "its", "of", "on", "that", "the",
      "to", "was", "will", "with", "this", "but", "they", "have",
      "had", "what", "when", "where", "who", "which", "why", "how",
      "all", "each", "every", "both", "few", "more", "most", "other",
      "some", "such", "no", "nor", "not", "only", "own", "same", "so",
      "than", "too", "very", "can", "just", "should", "now" }

\* .replace(/\s+/g, ' ')
CollapseWhitespace(text) ==
    LET RECURSIVE Collapsed(_, _)
        Collapsed(t, afterSpace) ==
            IF t = <<>> THEN <<>>
            ELSE IF Head(t) \in {" ", "\n"}
                 THEN (IF afterSpace THEN <<>> ELSE <<" ">>) \o Collapsed(Tail(t), TRUE)
            ELSE <<Head(t)>> \o Collapsed(Tail(t), FALSE)
    IN  Collapsed(text, FALSE)

\* String.prototype.trim
Trim(text) ==
    LET inked == { k \in 1..Len(text) : text[k] \notin {" ", "\n"} }
        first == CHOOSE k \in inked : \A j \in inked : k <= j
        last == CHOOSE k \in inked : \A j \in inked : k >= j
    IN  IF inked = {} THEN <<>> ELSE SubSeq(text, first, last)

\* removeStopWords with the lowercasing left out
RemoveStopWords_CaseSensitive(text) ==
    LET RECURSIVE Split(_, _)
        Split(t, word) ==
            IF t = <<>> THEN <<word>>
            ELSE IF Head(t) \in {" ", "\n"}
                 THEN IF Len(t) > 1 /\ t[2] \in {" ", "\n"}
                      THEN Split(Tail(t), word)
                      ELSE <<word>> \o Split(Tail(t), <<>>)
            ELSE Split(Tail(t), Append(word, Head(t)))
        RECURSIVE CleanWord(_)
        CleanWord(w) ==
            IF w = <<>> THEN ""
            ELSE IF Head(w) \in {",", "."} THEN CleanWord(Tail(w))
            ELSE Head(w) \o CleanWord(Tail(w))
        Kept(w) == CleanWord(w) \notin STOP_WORDS \/ CleanWord(w) = ""
        RECURSIVE Join(_)
        Join(ws) ==
            IF ws = <<>> THEN <<>>
            ELSE IF Len(ws) = 1 THEN ws[1]
            ELSE ws[1] \o <<" ">> \o Join(Tail(ws))
    IN  Join(SelectSeq(Split(text, <<>>), Kept))

\* removeStopWords(text)
RemoveStopWords(text) ==
    LET \* text.split(/\s+/): the pieces between runs of whitespace; a run at
        \* either end gives an empty piece
        RECURSIVE Split(_, _)
        Split(t, word) ==
            IF t = <<>> THEN <<word>>
            ELSE IF Head(t) \in {" ", "\n"}
                 THEN IF Len(t) > 1 /\ t[2] \in {" ", "\n"}
                      THEN Split(Tail(t), word)
                      ELSE <<word>> \o Split(Tail(t), <<>>)
            ELSE Split(Tail(t), Append(word, Head(t)))
        ToLower(ch) == IF ch = "A" THEN "a" ELSE ch
        \* word.toLowerCase().replace(/[^\w]/g, '')
        RECURSIVE CleanWord(_)
        CleanWord(w) ==
            IF w = <<>> THEN ""
            ELSE IF Head(w) \in {",", "."} THEN CleanWord(Tail(w))
            ELSE ToLower(Head(w)) \o CleanWord(Tail(w))
        Kept(w) == CleanWord(w) \notin STOP_WORDS \/ CleanWord(w) = ""
        \* filteredWords.join(' ')
        RECURSIVE Join(_)
        Join(ws) ==
            IF ws = <<>> THEN <<>>
            ELSE IF Len(ws) = 1 THEN ws[1]
            ELSE ws[1] \o <<" ">> \o Join(Tail(ws))
    IN  Join(SelectSeq(Split(text, <<>>), Kept))

\* cleanText(text, maxLength). After the first replace no newline is left, so
\* the second replace changes nothing.
CleanText(text, maxLength) ==
    LET trimmed == Trim(CollapseWhitespace(RemoveStopWords(text)))
    IN  SubSeq(trimmed, 1, IF Len(trimmed) < maxLength THEN Len(trimmed) ELSE maxLength)

\* EnhancedContentExtractor.cleanTextContent(text). Of the words its patterns
\* delete, texts here hold "image"; they hold no data URL, image URL or file
\* extension, and after the first replace no newline.
CleanTextContent(text) ==
    LET Stays(ch) == ch # "image"
    IN  Trim(SelectSeq(CollapseWhitespace(text), Stays))

\* removeStopWords(text) or cleanText(text, maxLength) is called and returns
CleanTextCall ==
    /\ fnCall.fn = "none"
    /\ \E t \in UNION { [1..n -> {"a", "A", "x", " ", "\n", ",", "image"}] : n \in 0..MaxText } :
          \/ /\ fnCall' = [fn |-> "removeStopWords", text |-> t]
             /\ fnResult' = <<RemoveStopWords(t)>>
          \/ \E maxLength \in {2, 3, 10000} :
                /\ fnCall' = [fn |-> "cleanText", text |-> t, maxLength |-> maxLength]
                /\ fnResult' = <<CleanText(t, maxLength)>>
    /\ UNCHANGED notCallVars

\* cleanTextContent(text) is called and returns
CleanTextContentCall ==
    /\ fnCall.fn = "none"
    /\ \E t \in UNION { [1..n -> {"x", " ", "\n", "image"}] : n \in 0..(MaxText + 1) } :
          /\ fnCall' = [fn |-> "cleanTextContent", text |-> t]
          /\ fnResult' = <<CleanTextContent(t)>>
    /\ UNCHANGED notCallVars

\* assessResultQuality with the keyword ratio counting the keywords a result lacks
AssessResultQuality_CountsMisses(results, originalQuery) ==
    LET commonWords ==
            { "the", "a", "an", "and", "or", "but", "in", "on", "at", "to", "for", "of",
              "with", "by", "is", "are", "was", "were", "be", "been", "have", "has", "had",
              "do", "does", "did", "will", "would", "could", "should", "may", "might",
              "must", "can", "group", "members" }
        Meaningful(word) == Len(word) > 2 /\ word \notin commonWords
        queryWords == SelectSeq(originalQuery, Meaningful)
        Found(text, word) == \E k \in 1..Len(text) : text[k] = word
        keywordMisses(text) ==
            Cardinality({ k \in 1..Len(queryWords) : ~Found(text, queryWords[k]) })
        RECURSIVE Total(_)
        Total(rs) ==
            IF rs = <<>> THEN 0
            ELSE (60 * keywordMisses(Head(rs))) \div Len(queryWords) + Total(Tail(rs))
    IN  IF results = <<>> THEN [sixtieths |-> 0, of |-> 1]
        ELSE IF queryWords = <<>> THEN [sixtieths |-> 30, of |-> 1]
        ELSE [sixtieths |-> Total(results), of |-> Len(results)]

\* SearchEngine.assessResultQuality(results, originalQuery). The query is the
\* sequence of its lowercased words, a result the sequence of the words of its
\* title, description and url. The score is the fraction sixtieths / (60 * of):
\* a keyword ratio k/n is 60k/n sixtieths, the phrase bonus 0.3 is 18 and the
\* penalty 0.2 is 12.
AssessResultQuality(results, originalQuery) ==
    LET commonWords ==
            { "the", "a", "an", "and", "or", "but", "in", "on", "at", "to", "for", "of",
              "with", "by", "is", "are", "was", "were", "be", "been", "have", "has", "had",
              "do", "does", "did", "will", "would", "could", "should", "may", "might",
              "must", "can", "group", "members" }
        Meaningful(word) == Len(word) > 2 /\ word \notin commonWords
        queryWords == SelectSeq(originalQuery, Meaningful)
        \* the phrases made of two neighbouring keywords, then the first three
        queryPhrases ==
            [k \in 1..(Len(queryWords) - 1) |-> SubSeq(queryWords, k, k + 1)]
              \o (IF Len(queryWords) >= 3 THEN <<SubSeq(queryWords, 1, 3)>> ELSE <<>>)
        \* combinedText.includes(...)
        TextIncludes(text, phrase) ==
            \E k \in 0..(Len(text) - Len(phrase)) : SubSeq(text, k + 1, k + Len(phrase)) = phrase
        phraseMatches(text) ==
            Cardinality({ k \in 1..Len(queryPhrases) : TextIncludes(text, queryPhrases[k]) })
        keywordMatches(text) ==
            Cardinality({ k \in 1..Len(queryWords) : TextIncludes(text, <<queryWords[k]>>) })
        \* the single words among irrelevantPatterns
        irrelevantPatterns ==
            { "recipe", "cooking", "food", "restaurant", "menu", "weather", "temperature",
              "forecast", "shopping", "sale", "price", "buy", "store", "movie", "film",
              "entertainment", "sports", "game", "score", "team", "fashion", "clothing",
              "style", "travel", "hotel", "flight", "vacation", "car", "vehicle",
              "automotive", "property", "house", "apartment" }
        penalty(text) ==
            12 * Cardinality({ p \in irrelevantPatterns : TextIncludes(text, <<p>>) })
        Min(a, b) == IF a < b THEN a ELSE b
        resultScore(text) ==
            Min(60, (60 * keywordMatches(text)) \div Len(queryWords) + 18 * phraseMatches(text))
        finalScore(text) ==
            IF resultScore(text) - penalty(text) > 0 THEN resultScore(text) - penalty(text) ELSE 0
        RECURSIVE Total(_)
        Total(rs) == IF rs = <<>> THEN 0 ELSE finalScore(Head(rs)) + Total(Tail(rs))
    IN  IF results = <<>> THEN [sixtieths |-> 0, of |-> 1]
        ELSE IF queryWords = <<>> THEN [sixtieths |-> 30, of |-> 1]
        ELSE [sixtieths |-> Total(results), of |-> Len(results)]

\* the result sets given to assessResultQuality: up to two results of up to two words
ResultSets ==
    LET texts == UNION { [1..n -> {"rust", "async", "recipe", "x"}] : n \in 0..2 }
    IN  UNION { [1..n -> texts] : n \in 0..2 }

\* assessResultQuality(results, originalQuery) is called and returns
AssessResultQualityCall ==
    /\ fnCall.fn = "none"
    /\ \E q \in UNION { [1..n -> {"the", "ai", "rust", "async"}] : n \in 0..MaxQuery },
          rs \in ResultSets :
          /\ fnCall' = [fn |-> "assessResultQuality", results |-> rs, originalQuery |-> q]
          /\ fnResult' = <<AssessResultQuality(rs, q)>>
    /\ UNCHANGED notCallVars

\* The tools of the server (index.ts). An argument is a JavaScript value:
\* [type |-> "undefined"], [type |-> "number", num |-> n],
\* [type |-> "boolean", bool |-> b] or [type |-> "string", text |-> characters].
\* A call returns [rejected |-> the message of the error it was rejected with, ""
\* when it was not, searchInvoked, extractInvoked |-> whether searchEngine.search
\* and the content extractor were called, emitted |-> for each content block of
\* the response the number of characters of page content and whether the
\* truncation marker follows].

\* parseInt(text, 10) for a text of the characters 0, 1 and a: the number its
\* leading digits spell, NaN when it starts with no digit
ParseInt(text) ==
    LET RECURSIVE Digits(_)
        Digits(t) == IF t # <<>> /\ Head(t) \in {"0", "1"} THEN <<Head(t)>> \o Digits(Tail(t))
                     ELSE <<>>
        RECURSIVE Value(_)
        Value(d) == IF d = <<>> THEN 0
                    ELSE 10 * Value(SubSeq(d, 1, Len(d) - 1))
                           + (IF d[Len(d)] = "1" THEN 1 ELSE 0)
    IN  IF Digits(text) = <<>> THEN [isNaN |-> TRUE, num |-> 0]
        ELSE [isNaN |-> FALSE, num |-> Value(Digits(text))]

\* the parameter schema of a tool applied to the arguments of a call: the error
\* it raises, or the parsed arguments given to the handler
SchemaParse(tool, args) ==
    LET \* typeof val === 'string' ? parseInt(val, 10) : val
        Num(val) == IF val.type = "number" THEN [isNaN |-> FALSE, num |-> val.num]
                    ELSE IF val.type = "string" THEN ParseInt(val.text)
                    ELSE [isNaN |-> TRUE, num |-> 0]
        has == [f \in {"query", "url", "limit", "includeContent", "maxContentLength"} |->
                   f \in DOMAIN args /\ args[f].type # "undefined"]
        named == IF tool = "get-single-web-page-content" THEN "url" ELSE "query"
        limited == tool # "get-single-web-page-content"
        capped == tool # "get-web-search-summaries"
        message ==
            IF ~has[named] \/ args[named].type # "string" THEN "Expected string"
            ELSE IF tool = "get-single-web-page-content" /\ args.url.text = <<>>
                 THEN "Invalid url"
            ELSE IF limited /\ has["limit"] /\ args.limit.type \notin {"number", "string"}
                 THEN "Invalid input"
            ELSE IF limited /\ has["limit"]
                      /\ (\/ Num(args.limit).isNaN
                          \/ Num(args.limit).num < 1
                          \/ Num(args.limit).num > 10)
                 THEN "Invalid limit: must be a number between 1 and 10"
            ELSE IF capped /\ has["maxContentLength"]
                      /\ (Num(args.maxContentLength).isNaN \/ Num(args.maxContentLength).num < 0)
                 THEN "Invalid maxContentLength: must be a non-negative number"
            ELSE ""
        limit == IF has["limit"] THEN [type |-> "number", num |-> Num(args.limit).num]
                 ELSE [type |-> "number", num |-> 5]
        includeContent ==
            IF ~has["includeContent"] THEN [type |-> "boolean", bool |-> TRUE]
            ELSE IF args.includeContent.type = "string"
                 THEN [type |-> "boolean", bool |-> args.includeContent.text = <<"true">>]
            ELSE args.includeContent
        maxContentLength ==
            IF has["maxContentLength"]
            THEN [type |-> "number", num |-> Num(args.maxContentLength).num]
            ELSE [type |-> "undefined"]
    IN  [message |-> message,
         args |-> CASE tool = "full-web-search" ->
                         [query |-> args.query, limit |-> limit,
                          includeContent |-> includeContent,
                          maxContentLength |-> maxContentLength]
                    [] tool = "get-web-search-summaries" ->
                         [query |-> args.query, limit |-> limit]
                    [] tool = "get-single-web-page-content" ->
                         [url |-> args.url, maxContentLength |-> maxContentLength]]

\* WebSearchMCPServer.validateAndConvertArgs(args): the message of the error it
\* throws, or the input it returns, which has no maxContentLength
ValidateAndConvertArgs(args) ==
    LET limitValue ==
            IF args.limit.type = "string" THEN ParseInt(args.limit.text)
            ELSE IF args.limit.type = "number" THEN [isNaN |-> FALSE, num |-> args.limit.num]
            ELSE [isNaN |-> TRUE, num |-> 0]
        message ==
            IF args.query.type # "string" \/ args.query.text = <<>>
            THEN "Invalid arguments: query is required and must be a string"
            ELSE IF args.limit.type # "undefined"
                      /\ (limitValue.isNaN \/ limitValue.num < 1 \/ limitValue.num > 10)
                 THEN "Invalid limit: must be a number between 1 and 10"
            ELSE ""
    IN  [message |-> message,
         query |-> args.query,
         limit |-> IF args.limit.type = "undefined" THEN 5 ELSE limitValue.num,
         includeContent |->
            IF args.includeContent.type = "undefined" THEN TRUE
            ELSE IF args.includeContent.type = "string"
                 THEN args.includeContent.text = <<"true">>
            ELSE args.includeContent.bool,
         maxContentLength |-> [type |-> "undefined"]]

\* the values a call passes for query or url, for limit and for maxContentLength
ArgumentValues(name) ==
    LET undefined == { [type |-> "undefined"] }
        Numbers(ns) == { [type |-> "number", num |-> n] : n \in ns }
        Strings(ts) == { [type |-> "string", text |-> t] : t \in ts }
    IN  CASE name \in {"query", "url"} ->
               undefined \cup Numbers({7}) \cup Strings({<<>>, <<"q">>})
          [] name = "limit" ->
               undefined \cup Numbers({0, 1, 10, 11}) \cup { [type |-> "boolean", bool |-> TRUE] }
                 \cup Strings(UNION { [1..n -> {"0", "1", "a"}] : n \in 0..2 })
          [] name = "includeContent" ->
               undefined \cup { [type |-> "boolean", bool |-> b] : b \in BOOLEAN }
          [] name = "maxContentLength" ->
               undefined \cup Numbers({-1, 0, 100})

\* a call of full-web-search, from its arguments to its response; the search
\* finds one page, whose cleaned text has `pageLength` characters
FullWebSearchCall ==
    /\ fnCall.fn = "none"
    /\ \E query \in ArgumentValues("query"), limit \in ArgumentValues("limit"),
          includeContent \in ArgumentValues("includeContent"),
          maxContentLength \in ArgumentValues("maxContentLength"),
          pageLength \in {50, 500} :
          LET raw == [query |-> query, limit |-> limit, includeContent |-> includeContent,
                      maxContentLength |-> maxContentLength]
              parsed == SchemaParse("full-web-search", raw)
              args == parsed.args
              validatedArgs == ValidateAndConvertArgs(args)
              isLikelyLlama == args.limit.type = "string" \/ args.includeContent.type = "string"
              isLikelyRobustModel ==
                  args.limit.type = "number" /\ args.includeContent.type = "boolean"
              hasExplicitMaxLength == args.maxContentLength.type # "undefined"
              limited == IF ~hasExplicitMaxLength /\ isLikelyLlama
                         THEN [type |-> "number", num |-> 2000]
                         ELSE validatedArgs.maxContentLength
              maxLength == IF /\ isLikelyRobustModel
                              /\ limited.type = "number" /\ limited.num # 0
                              /\ limited.num < 5000
                           THEN [type |-> "undefined"]
                           ELSE limited
              block == IF maxLength.type = "number" /\ maxLength.num > 0
                             /\ pageLength > maxLength.num
                       THEN [length |-> maxLength.num, marked |-> TRUE]
                       ELSE [length |-> pageLength, marked |-> FALSE]
          IN /\ fnCall' = [fn |-> "full-web-search", args |-> raw, pageLength |-> pageLength]
             /\ fnResult' =
                  << IF parsed.message # ""
                     THEN [rejected |-> parsed.message, searchInvoked |-> FALSE,
                           extractInvoked |-> FALSE, emitted |-> <<>>]
                     ELSE IF validatedArgs.message # ""
                          THEN [rejected |-> validatedArgs.message, searchInvoked |-> FALSE,
                                extractInvoked |-> FALSE, emitted |-> <<>>]
                     ELSE [rejected |-> "", searchInvoked |-> TRUE,
                           extractInvoked |-> validatedArgs.includeContent,
                           emitted |-> IF validatedArgs.includeContent THEN <<block>>
                                       ELSE <<>>] >>
    /\ UNCHANGED notCallVars

\* a call of get-web-search-summaries
GetWebSearchSummariesCall ==
    /\ fnCall.fn = "none"
    /\ \E query \in ArgumentValues("query"), limit \in ArgumentValues("limit") :
          LET raw == [query |-> query, limit |-> limit]
              parsed == SchemaParse("get-web-search-summaries", raw)
              obj == parsed.args
              limitValue ==
                  IF obj.limit.type = "string" THEN ParseInt(obj.limit.text)
                  ELSE IF obj.limit.type = "number"
                       THEN [isNaN |-> FALSE, num |-> obj.limit.num]
                  ELSE [isNaN |-> TRUE, num |-> 0]
              message ==
                  IF obj.query.type # "string" \/ obj.query.text = <<>>
                  THEN "Invalid arguments: query is required and must be a string"
                  ELSE IF obj.limit.type # "undefined"
                            /\ (limitValue.isNaN \/ limitValue.num < 1 \/ limitValue.num > 10)
                       THEN "Invalid limit: must be a number between 1 and 10"
                  ELSE ""
          IN /\ fnCall' = [fn |-> "get-web-search-summaries", args |-> raw]
             /\ fnResult' =
                  << [rejected |-> IF parsed.message # "" THEN parsed.message ELSE message,
                      searchInvoked |-> parsed.message = "" /\ message = "",
                      extractInvoked |-> FALSE, emitted |-> <<>>] >>
    /\ UNCHANGED notCallVars

\* a call of get-single-web-page-content; extractContent returns `pageLength`
\* characters
GetSingleWebPageContentCall ==
    /\ fnCall.fn = "none"
    /\ \E url \in ArgumentValues("url"),
          maxContentLength \in ArgumentValues("maxContentLength"), pageLength \in {50, 500} :
          LET raw == [url |-> url, maxContentLength |-> maxContentLength]
              parsed == SchemaParse("get-single-web-page-content", raw)
              obj == parsed.args
              message ==
                  IF obj.url.type # "string" \/ obj.url.text = <<>>
                  THEN "Invalid arguments: url is required and must be a string"
                  ELSE IF obj.maxContentLength.type # "undefined"
                            /\ obj.maxContentLength.num < 0
                       THEN "Invalid maxContentLength: must be a non-negative number"
                  ELSE ""
              \* maxLengthValue === 0 ? undefined : maxLengthValue
              limit == IF obj.maxContentLength.type = "undefined" THEN 0
                       ELSE obj.maxContentLength.num
              block == IF limit > 0 /\ pageLength > limit
                       THEN [length |-> limit, marked |-> TRUE]
                       ELSE [length |-> pageLength, marked |-> FALSE]
          IN /\ fnCall' = [fn |-> "get-single-web-page-content", args |-> raw,
                            pageLength |-> pageLength]
             /\ fnResult' =
                  << IF parsed.message # "" \/ message # ""
                     THEN [rejected |-> IF parsed.message # "" THEN parsed.message ELSE message,
                           searchInvoked |-> FALSE, extractInvoked |-> FALSE,
                           emitted |-> <<>>]
                     ELSE [rejected |-> "", searchInvoked |-> FALSE, extractInvoked |-> TRUE,
                           emitted |-> <<block>>] >>
    /\ UNCHANGED notCallVars

\* The waits of a backend attempt. Their timeouts are kept in thirds of a
\* millisecond, so that timeout / 3 is exact: 500 ms is 1500, 2 s is 6000,
\* 3 s is 9000. A wait is listed with the timeout the code gives it; steps the
\* code gives no timeout (launch, fill, click, content, close) are not listed.

\* search(): Math.min(timeout / 3, 4000) for a timeout in ms
ApproachTimeout(timeout) == IF timeout < 3 * 4000 THEN timeout ELSE 3 * 4000

\* tryBrowserBingSearchInternal / tryBrowserBraveSearchInternal with the
\* navigation they make. script.fails is the step of the function that throws
\* ("goto" is the navigation to the results URL), script.enhanced the step of
\* tryEnhancedBingSearch that throws, after which Bing falls back to the results
\* URL. A results selector that does not show up is waited for and passed over.
TryBrowserSearchInternal(engine, timeout, script) ==
    LET enhanced ==
            IF script.enhanced = "goto" THEN <<timeout \div 2>>
            ELSE IF script.enhanced = "waitForSelector" THEN <<timeout \div 2, 1500, 6000>>
            ELSE IF script.enhanced = "waitForNavigation"
                 THEN <<timeout \div 2, 1500, 6000, timeout>>
            ELSE <<timeout \div 2, 1500, 6000, timeout, 9000>>
        direct == IF script.fails = "goto" THEN <<timeout>> ELSE <<timeout, 9000>>
    IN  IF script.fails \in {"isConnected", "newContext", "newPage"}
        THEN [threw |-> TRUE, step |-> script.fails, waits |-> <<>>]
        ELSE IF engine = "Browser Bing" /\ script.enhanced = "none"
             THEN [threw |-> FALSE, step |-> "none", waits |-> enhanced]
        ELSE [threw |-> script.fails = "goto", step |-> script.fails,
              waits |-> IF engine = "Browser Bing" THEN enhanced \o direct ELSE direct]

\* variant: the browser is closed only after an attempt that succeeded
ClosesBrowser_OnSuccessOnly(launched, threw) == launched /\ ~threw

\* finally { if (browser) { await browser.close() } }
ClosesBrowser(launched, threw) == launched

\* tryBrowserBingSearch / tryBrowserBraveSearch: the retry loop. run[k] is what
\* happens in attempt k; browser k is the one attempt k launches. The result
\* lists the attempts made, the launches and closes in the order they were
\* called, the waits issued, and the error thrown, if any.
TryBrowserSearch(engine, timeout, run) ==
    LET Attempt(k) ==
            LET inner == TryBrowserSearchInternal(engine, timeout, run[k])
                threw == ~run[k].launch \/ inner.threw
            IN  [threw |-> threw,
                 error |-> IF ~run[k].launch THEN [attempt |-> k, step |-> "launch"]
                           ELSE [attempt |-> k, step |-> inner.step],
                 waits |-> (IF run[k].launch THEN inner.waits ELSE <<>>)
                           \o (IF threw /\ k < 2 THEN <<1500>> ELSE <<>>),
                 log |-> (IF run[k].launch THEN <<[op |-> "launch", browser |-> k]>> ELSE <<>>)
                         \o (IF ClosesBrowser(run[k].launch, threw)
                             THEN <<[op |-> "close", browser |-> k]>> ELSE <<>>)]
        first == Attempt(1)
        second == Attempt(2)
    IN  IF ~first.threw
        THEN [attempts |-> <<first>>, log |-> first.log, waits |-> first.waits,
              threw |-> FALSE, error |-> [attempt |-> 0, step |-> "none"]]
        ELSE [attempts |-> <<first, second>>, log |-> first.log \o second.log,
              waits |-> first.waits \o second.waits,
              threw |-> second.threw,
              error |-> IF second.threw THEN second.error
                        ELSE [attempt |-> 0, step |-> "none"]]

\* search() calls one approach with its share of `timeout` (in ms); the
\* approach returns or throws. tryDuckDuckGoSearch makes one request with that
\* timeout.
ApproachCall ==
    /\ fnCall.fn = "none"
    /\ \E timeout \in {3000, 10000, 30000}, k \in 1..Len(approaches) :
        LET name == approaches[k]
            scripts ==
                { s \in [launch : BOOLEAN,
                         fails : {"none", "isConnected", "newContext", "newPage", "goto"},
                         enhanced : {"none", "goto", "waitForSelector", "waitForNavigation"},
                         closeThrows : BOOLEAN] :
                    /\ ~s.launch => s.fails = "none" /\ s.enhanced = "none" /\ ~s.closeThrows
                    /\ name # "Browser Bing" => s.enhanced = "none"
                    /\ s.fails # "goto" /\ name = "Browser Bing" => s.enhanced = "none"
                    /\ name = "Axios DuckDuckGo" =>
                          s.launch /\ ~s.closeThrows /\ s.fails \in {"none", "goto"} }
            runs == IF name = "Axios DuckDuckGo" THEN { <<s>> : s \in scripts }
                    ELSE { <<s1, s2>> : s1 \in scripts, s2 \in scripts }
            approachTimeout == ApproachTimeout(timeout)
        IN \E run \in runs :
             /\ fnCall' = [fn |-> name, timeout |-> timeout, run |-> run]
             /\ fnResult' =
                  << IF name = "Axios DuckDuckGo"
                     THEN [approachTimeout |-> approachTimeout,
                           attempts |-> <<>>, log |-> <<>>,
                           waits |-> <<approachTimeout>>,
                           threw |-> run[1].fails = "goto",
                           error |-> IF run[1].fails = "goto"
                                     THEN [attempt |-> 0, step |-> "DuckDuckGo search failed"]
                                     ELSE [attempt |-> 0, step |-> "none"]]
                     ELSE [approachTimeout |-> approachTimeout]
                          @@ TryBrowserSearch(name, approachTimeout, run) >>
    /\ UNCHANGED notCallVars

\* parseContent: the choice of mainContent. A page is the elements left after
\* the removals that match a content selector, in document order, each with the
\* selector it matches and the length of its trimmed text; the paragraphs of
\* the body, each with the length and the first word of its trimmed text; and
\* the text of the body. The result names the tier that gave mainContent and
\* the texts it is made of (paragraphs are joined by a blank line).

\* variant: the first candidate is taken, not the longest
ParseContent_FirstCandidate(page) ==
    LET contentSelectors == <<"article", ".content">>
        Candidate(e) == e.length > 200
        Of(selector) ==
            LET Matching(e) == e.selector = selector /\ Candidate(e)
            IN SelectSeq(page.elements, Matching)
        contentCandidates == Of(contentSelectors[1]) \o Of(contentSelectors[2])
        best == 1
        \* text.match(/^(copyright|privacy|terms|cookie|disclaimer)/i)
        Boilerplate(word) ==
            word \in {"copyright", "Copyright", "privacy", "Privacy", "terms", "cookie",
                      "disclaimer"}
        Kept(p) == p.length > 50 /\ ~Boilerplate(p.first)
        paragraphs == SelectSeq(page.paragraphs, Kept)
    IN  IF contentCandidates # <<>>
        THEN [tier |-> "selector", texts |-> <<contentCandidates[best].text>>, separator |-> ""]
        ELSE IF paragraphs # <<>>
             THEN [tier |-> "paragraphs",
                   texts |-> [n \in 1..Len(paragraphs) |-> paragraphs[n].text],
                   separator |-> "\n\n"]
             ELSE [tier |-> "body", texts |-> << <<"body", 0>> >>, separator |-> ""]

\* parseContent: candidates of the content selectors, else paragraphs, else body
ParseContent(page) ==
    LET contentSelectors == <<"article", ".content">>
        Candidate(e) == e.length > 200
        Of(selector) ==
            LET Matching(e) == e.selector = selector /\ Candidate(e)
            IN SelectSeq(page.elements, Matching)
        contentCandidates == Of(contentSelectors[1]) \o Of(contentSelectors[2])
        \* sort((a, b) => b.length - a.length) is stable: the first of the longest
        best == CHOOSE n \in 1..Len(contentCandidates) :
                    /\ \A m \in 1..Len(contentCandidates) :
                          contentCandidates[m].length <= contentCandidates[n].length
                    /\ \A m \in 1..(n - 1) :
                          contentCandidates[m].length < contentCandidates[n].length
        \* text.match(/^(copyright|privacy|terms|cookie|disclaimer)/i)
        Boilerplate(word) ==
            word \in {"copyright", "Copyright", "privacy", "Privacy", "terms", "cookie",
                      "disclaimer"}
        Kept(p) == p.length > 50 /\ ~Boilerplate(p.first)
        paragraphs == SelectSeq(page.paragraphs, Kept)
    IN  IF contentCandidates # <<>>
        THEN [tier |-> "selector", texts |-> <<contentCandidates[best].text>>, separator |-> ""]
        ELSE IF paragraphs # <<>>
             THEN [tier |-> "paragraphs",
                   texts |-> [n \in 1..Len(paragraphs) |-> paragraphs[n].text],
                   separator |-> "\n\n"]
             ELSE [tier |-> "body", texts |-> << <<"body", 0>> >>, separator |-> ""]

\* parseContent(html) is called and has chosen mainContent
ParseContentCall ==
    /\ fnCall.fn = "none"
    /\ \E ne \in 0..MaxElements, np \in 0..MaxElements :
       \E es \in [1..ne -> [selector : {"article", ".content"}, length : {200, 201, 300}]],
          ps \in [1..np -> [length : {50, 51}, first : {"Copyright", "the"}]] :
          LET page == [elements |-> [n \in 1..ne |->
                                        [selector |-> es[n].selector, length |-> es[n].length,
                                         text |-> <<"element", n>>]],
                       paragraphs |-> [n \in 1..np |->
                                        [length |-> ps[n].length, first |-> ps[n].first,
                                         text |-> <<"paragraph", n>>]]]
          IN /\ fnCall' = [fn |-> "parseContent", page |-> page]
             /\ fnResult' = <<ParseContent(page)>>
    /\ UNCHANGED notCallVars

NextCalls == CleanUrlCall \/ CleanTextCall \/ CleanTextContentCall
               \/ AssessResultQualityCall \/ FullWebSearchCall
               \/ GetWebSearchSummariesCall \/ GetSingleWebPageContentCall
               \/ ApproachCall \/ ParseContentCall

SpecCalls == Init /\ [][NextCalls]_vars

----------------------------------------------------------------------------
\* Properties

EngineNames == { approaches[k] : k \in 1..Len(approaches) }

\* attempt k of the observed call produced a non-empty result list
Yielded(k) == attempts[k].status = "results" /\ attempts[k].n > 0

\* the quality score the loop computed for attempt k (1.0 when checking is off)
ScoreOf(k) == IF cfg.enableQualityCheck THEN attempts[k].relevance ELSE 100

\* the value that names attempt k's results and engine
ValueOf(k) == [results |-> ResultList(approaches[k], attempts[k].n), engine |-> approaches[k]]

EmptyValue == [results |-> <<>>, engine |-> "None"]

\* C1: every admitted search() call returns without raising, and what it
\* returns is either a non-empty result list with the name of a backend or the
\* empty list with the engine "None", never a mix of the two.
C1_OutcomeWellFormed ==
    /\ pc = "returned" =>
          /\ thrown = <<>>
          /\ Len(outcome) = 1
          /\ \/ Len(outcome[1].results) > 0 /\ outcome[1].engine \in EngineNames
             \/ outcome[1].results = <<>> /\ outcome[1].engine = "None"
    /\ attempts # <<>> => thrown = <<>> /\ pc # "rejected"

C1_Witness ==
    /\ pc = "returned"
    /\ Len(attempts) = 3
    /\ attempts[1].status = "throws"
    /\ Yielded(2)
    /\ attempts[3].status = "throws"
    /\ outcome[1] = EmptyValue

\* C2: once every backend has been attempted without an early return, search()
\* returns the best-scoring candidate seen whenever some backend yielded a
\* non-empty list, and the empty outcome only when none did, whatever the last
\* backend did.
C2_BestCandidateOnExhaustion ==
    LET earlyReturn(k) ==
            /\ Yielded(k)
            /\ ~cfg.forceMultiEngine
            /\ \/ ScoreOf(k) >= 80
               \/ k > 1 /\ ScoreOf(k) >= cfg.qualityThreshold
        yielding == { k \in 1..Len(attempts) : Yielded(k) }
        top == { k \in yielding : \A j \in yielding : ScoreOf(j) <= ScoreOf(k) }
    IN (/\ pc = "returned"
        /\ Len(attempts) = 3
        /\ \A k \in 1..3 : ~earlyReturn(k))
       => IF yielding = {}
          THEN outcome[1] = EmptyValue
          ELSE \E k \in top : outcome[1] = ValueOf(k)

\* C3: a non-empty primary result set scoring at least 0.8, with
\* force-multi-engine off, is returned at once under the primary's name and no
\* other backend is invoked in that call.
C3_ExcellentPrimaryShortCircuits ==
    (/\ Len(attempts) >= 1
     /\ Yielded(1)
     /\ ScoreOf(1) >= 80
     /\ ~cfg.forceMultiEngine)
    => /\ pc = "returned"
       /\ Len(attempts) = 1
       /\ outcome = <<ValueOf(1)>>
       /\ outcome[1].engine = "Browser Bing"

C3_Witness ==
    /\ Len(attempts) = 1
    /\ Yielded(1)
    /\ cfg.enableQualityCheck
    /\ attempts[1].relevance = 80
    /\ ~cfg.forceMultiEngine
    /\ pc = "returned"

\* C4: when the primary and the secondary backend yield no result and the
\* tertiary yields at least one, search() returns the tertiary's results under
\* the tertiary's name, for every relevance score including 0.
C4_TertiaryUsedWhenOthersEmpty ==
    (/\ Len(attempts) = 3
     /\ attempts[1].status = "results" /\ attempts[1].n = 0
     /\ attempts[2].status = "results" /\ attempts[2].n = 0
     /\ Yielded(3))
    => /\ pc = "returned"
       /\ outcome = <<ValueOf(3)>>
       /\ outcome[1].engine = "Axios DuckDuckGo"

\* C5: backends are attempted in the order primary, secondary, tertiary; at
\* most one attempt is in flight, and an attempt is started only after the
\* previous one has settled without causing a return.
C5_SequentialAttempts ==
    /\ Len(attempts) <= 3
    /\ \A k \in 1..Len(attempts) :
          /\ attempts[k].engine = approaches[k]
          /\ attempts[k].status = "inflight" => k = Len(attempts) /\ pc = "await"
    /\ Cardinality({ k \in 1..Len(attempts) : attempts[k].status = "inflight" }) <= 1
    /\ pc = "await" => attempts # <<>> /\ attempts[Len(attempts)].status = "inflight"
    /\ \A k \in 1..Len(attempts) - 1 :
          ~(/\ Yielded(k)
            /\ ~cfg.forceMultiEngine
            /\ \/ ScoreOf(k) >= 80
               \/ k > 1 /\ ScoreOf(k) >= cfg.qualityThreshold)

C5_Witness ==
    /\ Len(attempts) = 3
    /\ attempts[1].status = "throws"
    /\ Yielded(2)
    /\ attempts[3].status = "inflight"

\* C6: with force-multi-engine off, a non-primary backend whose non-empty
\* results score at least the minimum threshold makes search() return those
\* results at once, while primary results scoring between the threshold and
\* 0.8 never do: the next backend is attempted.
C6_StricterBarForPrimary ==
    \A k \in 1..Len(attempts) :
        (Yielded(k) /\ ~cfg.forceMultiEngine /\ ScoreOf(k) >= cfg.qualityThreshold)
        => /\ k > 1 => /\ k = Len(attempts)
                       /\ pc = "returned"
                       /\ outcome = <<ValueOf(k)>>
           /\ (k = 1 /\ ScoreOf(k) < 80) => /\ Len(attempts) >= 2
                                             /\ attempts[2].engine = "Browser Brave"

C6_Witness ==
    /\ ~cfg.forceMultiEngine
    /\ cfg.qualityThreshold = 30
    /\ Len(attempts) = 2
    /\ Yielded(1) /\ ScoreOf(1) = 30
    /\ Yielded(2) /\ ScoreOf(2) = 30
    /\ pc = "returned"
    /\ outcome[1].engine = "Browser Brave"

\* C7: an exception of a backend attempt never leaves search(); the next
\* backend (if any) is attempted as after zero results. For a session-closure
\* message BrowserPool.closeAll has settled before the next attempt starts; for
\* any other exception the pool is not touched.
C7_BackendExceptionAbsorbed ==
    \A k \in 1..Len(attempts) :
        attempts[k].status = "throws" =>
            LET closure == /\ attempts[k].isError
                           /\ attempts[k].message \in
                                { "Target page, context or browser has been closed",
                                  "Browser has been closed",
                                  "Session has been closed" }
            IN /\ thrown = <<>>
               /\ k = Len(attempts) =>
                     /\ pc \in {"closing", "returned"}
                     /\ pc = "closing" => closure /\ ~attempts[k].poolClosed
                     /\ pc = "returned" => k = 3
               /\ (k < Len(attempts) \/ pc = "returned") => (attempts[k].poolClosed <=> closure)
               /\ ~closure => ~attempts[k].poolClosed

C7_Witness ==
    /\ Len(attempts) = 3
    /\ attempts[1].status = "throws" /\ attempts[1].poolClosed
    /\ attempts[2].status = "throws" /\ ~attempts[2].poolClosed
    /\ attempts[3].status = "inflight"

C9_CounterWithinQuota == requestCount <= 10

\* C10: at most 5 functions submitted through execute() run at the same time;
\* a further admitted call waits until a running one has completed.
C10_AtMostFiveRunning ==
    [][/\ activeCount <= 5
       /\ activeCount' <= 5
       /\ (activeCount = 5 /\ queued > 0) => (queued' >= queued /\ activeCount' <= activeCount)]_vars

C10_Witness == activeCount = 5 /\ queued > 0

----------------------------------------------------------------------------
\* Properties of extractContentForResults

\* a URL whose pathname (or, if it does not parse, whose raw text) ends in ".pdf"
\* in any letter case
PdfByEnding(url) ==
    IF url.parses THEN url.pathTail \in {".pdf", ".PDF"}
    ELSE url.rawTail \in {".pdf", ".PDF"}

ReturnedTitles == { bReturned[j].title : j \in 1..Len(bReturned) }

\* item k of resultsToProcess: did its extraction win the race and resolve
Succeeded(k) == bItems[k].race # <<>> /\ bItems[k].race[1].ok

Failed(k) == bItems[k].race # <<>> /\ ~bItems[k].race[1].ok

\* C11: the returned list has at most targetCount entries, none of them has a
\* PDF URL, and an input result with a PDF URL is not returned in any form.
C11_AtMostTargetNoPdf ==
    bPc = "returned" =>
        /\ Len(bReturned) <= bTarget
        /\ \A j \in 1..Len(bReturned) : ~PdfByEnding(bReturned[j].url)
        /\ \A k \in 1..Len(bInput) :
              PdfByEnding(bInput[k].url) => bInput[k].title \notin ReturnedTitles

\* a call whose input held a PDF and more pages than asked for, answered in full
C11_Witness ==
    /\ bPc = "returned"
    /\ bTarget >= 1
    /\ Len(bReturned) = bTarget
    /\ Len(bItems) > bTarget
    /\ \E k \in 1..Len(bInput) : bInput[k].url.href = "upperPdf"

\* C12: in the returned list no failed entry comes before a succeeded one, and a
\* failed entry is present only if fewer than targetCount of the processed
\* results succeeded.
C12_SuccessesFirstFailuresBackfill ==
    bPc = "returned" =>
        /\ \A a \in 1..Len(bReturned), b \in 1..Len(bReturned) :
              (a < b /\ bReturned[a].fetchStatus = "error") =>
                  bReturned[b].fetchStatus # "success"
        /\ (\E j \in 1..Len(bReturned) :
                bReturned[j].fetchStatus = "error" /\ bReturned[j].error # "")
           => Cardinality({ k \in 1..Len(bItems) : Succeeded(k) }) < bTarget
        /\ \A j \in 1..Len(bReturned) :
              bReturned[j].fetchStatus = "error" => bReturned[j].error # ""

\* an item that failed stood before one that succeeded, and both were returned
C12_Witness ==
    /\ bPc = "returned"
    /\ \E k1 \in 1..Len(bItems), k2 \in 1..Len(bItems) :
          /\ k1 < k2
          /\ Failed(k1)
          /\ Succeeded(k2)
          /\ bItems[k1].result.title \in ReturnedTitles
          /\ bItems[k2].result.title \in ReturnedTitles

\* what a failing item must be recorded as
RecordedAsError(k) ==
    /\ bItems[k].settled[1].kind = "fulfilled"
    /\ bItems[k].settled[1].entry.fetchStatus = "error"
    /\ bItems[k].settled[1].entry.error # ""
    /\ bItems[k].settled[1].entry.fullContent = ""
    /\ bItems[k].settled[1].entry.contentPreview = ""
    /\ bItems[k].settled[1].entry.wordCount = "0"

\* the success entry of item k with its content
SuccessOf(k) ==
    [title |-> bItems[k].result.title, url |-> bItems[k].result.url,
     description |-> bItems[k].result.description,
     fullContent |-> "cleanText(content)",
     contentPreview |-> "getContentPreview(cleanText(content))",
     wordCount |-> "getWordCount(cleanText(content))",
     fetchStatus |-> "success", error |-> ""]

IsReturned(entry) == \E j \in 1..Len(bReturned) : bReturned[j] = entry

\* C13 as stated: the call never rejects, each failing item yields an error
\* entry with a non-empty error text, empty fullContent/contentPreview and
\* wordCount 0, and every item whose extraction succeeded is returned as a
\* success with its content.
C13_Original ==
    /\ bPc # "rejected"
    /\ \A k \in 1..Len(bItems) : Failed(k) => RecordedAsError(k)
    /\ bPc = "returned" =>
          \A k \in 1..Len(bItems) : Succeeded(k) => IsReturned(SuccessOf(k))

\* C13 (amended): the call never rejects, each failing item yields an error
\* entry with a non-empty error text, empty fullContent/contentPreview and
\* wordCount 0, and an item whose extraction succeeded is returned as a success
\* with its content exactly when fewer than targetCount succeeded items precede
\* it among the processed results, whatever else failed.
C13_FailuresContained ==
    /\ bPc # "rejected"
    /\ \A k \in 1..Len(bItems) : Failed(k) => RecordedAsError(k)
    /\ bPc = "returned" =>
          \A k \in 1..Len(bItems) : Succeeded(k) =>
              (IsReturned(SuccessOf(k))
                 <=> Cardinality({ h \in 1..(k - 1) : Succeeded(h) }) < bTarget)

\* a failed item ahead of a succeeded one; the success alone is returned
C13_Witness ==
    /\ bPc = "returned"
    /\ \E k1 \in 1..Len(bItems), k2 \in 1..Len(bItems) :
          /\ k1 < k2
          /\ Failed(k1) /\ RecordedAsError(k1)
          /\ Succeeded(k2)
          /\ bReturned = <<SuccessOf(k2)>>

\* item k's extraction has not settled: the race was decided by the timer
TimedOut(k) ==
    /\ bItems[k].race # <<>>
    /\ bItems[k].race[1].by = "timer"

\* C14: a dispatched batch eventually returns even if an extraction never
\* completes, and each item whose extraction had not completed is recorded as
\* failed with the timeout error.
C14_HungItemDoesNotStall ==
    (bPc = "waiting") ~>
        (/\ bPc = "returned"
         /\ \A k \in 1..Len(bItems) :
               \/ bItems[k].race # <<>> /\ bItems[k].race[1].by = "extraction"
               \/ /\ TimedOut(k)
                  /\ bItems[k].settled[1].entry.fetchStatus = "error"
                  /\ bItems[k].settled[1].entry.error = "Content extraction timeout")

\* a returned batch in which one extraction completed and another never did
C14_Witness ==
    /\ bPc = "returned"
    /\ \E k1 \in 1..Len(bItems), k2 \in 1..Len(bItems) :
          /\ TimedOut(k1)
          /\ Succeeded(k2)
          /\ bItems[k1].result.title \in ReturnedTitles

\* the number of results selected for extraction
SelectedCount ==
    LET nonPdf == Cardinality({ k \in 1..Len(bInput) : ~PdfByEnding(bInput[k].url) })
        limit == IF 2 * bTarget < 10 THEN 2 * bTarget ELSE 10
    IN IF nonPdf < limit THEN nonPdf ELSE limit

----------------------------------------------------------------------------
\* Properties of extractContent

FetchSettled == fPc \in {"resolved", "rejected"}

\* fast-path request n came back with HTTP status 403
Got403(n) == n <= Len(fFast) /\ ~fFast[n].out.ok /\ fFast[n].out.error.status = 403

FastFailed == Len(fFast) >= 1 /\ ~fFast[1].out.ok

Recognised ==
    \/ fFast[1].out.error.status \in {403, 429, 503}
    \/ fFast[1].out.error.message \in
          {"timeout of 6000ms exceeded", "Low quality content detected - likely bot detection"}
    \/ fFast[1].out.error.data = "Please complete the captcha"
    \/ fUrl.href = "reddit.com/r/x"

C18_ContextsClosed == FetchSettled => fOpen = {}

----------------------------------------------------------------------------
\* Properties of BrowserPool

\* closeAll() can take a step of its own: one of its closes settles, or it
\* clears the map
CloseAllCanGoOn == ENABLED (CloseAllFinish \/ \E b \in 1..MaxCalls : CloseSettles(b))

\* C19: closeAll has called close on every browser the pool held, and whatever
\* its closes do (succeed, reject, never complete) it is never stuck short of
\* clearing the map: until the map is cleared it can always go on.
C19_CloseAllClearsPool ==
    /\ cPc \in {"awaiting", "done"} => cHeld \subseteq closeInvoked
    /\ cPc = "awaiting" => CloseAllCanGoOn

\* the pool map holds the browser `id`
Holds(id) == \E n \in 1..Len(browsers) : browsers[n].id = id

\* C20: a getBrowser call launches only if the pool had no entry for the family,
\* or the entry was not connected, or its probe failed; a call whose probe passed
\* returns the held browser and launches nothing; after a failed probe the old
\* browser is out of the map and has been closed, the browser launched in its
\* place is stored under the family, and the browser returned is never the one
\* that failed the check.
C20_ReuseOnlyHealthy ==
    /\ [](\A c \in {"first", "second"} :
            /\ (calls[c].pc \in {"launching", "evicting"} \/ calls[c].fresh # 0)
                  => calls[c].probe \in {"absent", "disconnected", "failed"}
            /\ calls[c].probe = "passed" =>
                  /\ calls[c].pc = "returned"
                  /\ calls[c].returned = calls[c].held
                  /\ calls[c].fresh = 0
            /\ calls[c].probe = "failed" =>
                  /\ ~Holds(calls[c].held)
                  /\ calls[c].held \in closeInvoked
            /\ (calls[c].pc = "returned" /\ calls[c].probe \in {"failed", "disconnected"}) =>
                  /\ calls[c].returned # calls[c].held
                  /\ calls[c].returned = calls[c].fresh
                  /\ calls[c].fresh # 0)
    /\ [][\A c \in {"first", "second"} :
            (calls[c].pc = "launching" /\ calls'[c].fresh # 0) =>
                \E n \in 1..Len(browsers') :
                    /\ browsers'[n].type = calls[c].type
                    /\ browsers'[n].id = calls'[c].fresh]_vars

\* a held browser failed its probe, was closed, and a fresh one was returned
C20_Witness ==
    \E c \in {"first", "second"} :
        /\ calls[c].pc = "returned"
        /\ calls[c].probe = "failed"
        /\ calls[c].held \in closeInvoked
        /\ calls[c].returned = calls[c].fresh
        /\ Holds(calls[c].fresh)

\* C21: at the step that completes a getBrowser call the pool holds at most
\* maxBrowsers entries, and if the call evicted an entry, close has been called
\* on the evicted browser and it is not the browser the call returns.
C21_PoolWithinMaximum ==
    [][\A c \in {"first", "second"} :
          (calls[c].pc # "returned" /\ calls'[c].pc = "returned"
             /\ poolConfig[1].maxBrowsers >= 1) =>
              /\ Len(browsers') <= poolConfig[1].maxBrowsers
              /\ calls'[c].evicted # 0 =>
                    /\ calls'[c].evicted \in closeInvoked'
                    /\ calls'[c].evicted # calls'[c].returned]_vars

\* C24: when extractContent is given maxContentLength N > 0 and resolves, the
\* content it resolves with has at most N characters, whichever path produced it.
C24_TruncationLaw ==
    (fPc = "resolved" /\ fMaxLen > 0) => fResult[1].content.length <= fMaxLen

----------------------------------------------------------------------------
\* Properties of the result parsers

\* C22: every result a parser returns has a url that starts with http:// or
\* https://.
C22_ResultUrlsAbsolute ==
    pPc = "returned" =>
        \A k \in 1..Len(pResults) :
            /\ Len(pResults[k].url) >= 4
            /\ SubSeq(pResults[k].url, 1, 4) \in { <<"http", ":", "/", "/">>,
                                                  <<"https", ":", "/", "/">> }

\* C29: a parser never returns more than maxResults results.
C29_AtMostMaxResults ==
    pPc \in {"selector", "each", "done", "returned"} => Len(pResults) <= pMaxResults

\* a call with more acceptable blocks than maxResults, one of them matched by
\* several container selectors, has returned maxResults results
C29_Witness ==
    /\ pPc = "returned"
    /\ pEngine = "bing"
    /\ pMaxResults = 1
    /\ Len(pResults) = 1
    /\ Len(pHtml) = 2
    /\ \A k \in 1..2 : pHtml[k].title = "T" /\ pHtml[k].marks = {1, 2}
                           /\ pHtml[k].href = <<"https", ":", "/", "/", "x", "/", "p">>

----------------------------------------------------------------------------
\* Properties of the synchronous functions

\* C23: cleaning the redirect link an engine makes for an absolute http(s) URL
\* gives back exactly that URL, for the DuckDuckGo and for the Google format.
C23_RedirectRoundTrip ==
    (fnCall.fn \in {"cleanDuckDuckGoUrl", "cleanGoogleUrl"} /\ fnCall.kind = "redirect"
        /\ fnResult # <<>>) => fnResult[1] = fnCall.from

\* C25: cleanText applied to its own output, with the same limit, changes
\* nothing, and neither does cleanTextContent applied to its own output.
C25_CleaningIdempotent ==
    /\ (fnCall.fn = "cleanText" /\ fnResult # <<>>) =>
          CleanText(fnResult[1], fnCall.maxLength) = fnResult[1]
    /\ (fnCall.fn = "cleanTextContent" /\ fnResult # <<>>) =>
          CleanTextContent(fnResult[1]) = fnResult[1]

\* C30: the whitespace-delimited tokens of removeStopWords(text) are exactly the
\* tokens of text whose lowercased core, punctuation aside, is not a stop word,
\* unchanged and in their original order.
C30_StopWordsRemovedOthersKept ==
    LET RECURSIVE Tokens(_, _)
        Tokens(t, word) ==
            IF t = <<>> THEN (IF word = <<>> THEN <<>> ELSE <<word>>)
            ELSE IF Head(t) \in {" ", "\n"}
                 THEN (IF word = <<>> THEN <<>> ELSE <<word>>) \o Tokens(Tail(t), <<>>)
            ELSE Tokens(Tail(t), Append(word, Head(t)))
        RECURSIVE Core(_)
        Core(w) ==
            IF w = <<>> THEN ""
            ELSE IF Head(w) \in {",", "."} THEN Core(Tail(w))
            ELSE (IF Head(w) = "A" THEN "a" ELSE Head(w)) \o Core(Tail(w))
        Content(w) == Core(w) \notin STOP_WORDS
    IN  (fnCall.fn = "removeStopWords" /\ fnResult # <<>>) =>
            Tokens(fnResult[1], <<>>) = SelectSeq(Tokens(fnCall.text, <<>>), Content)

\* a text with a capitalised, punctuated stop word before another token
C30_Witness ==
    /\ fnCall.fn = "removeStopWords"
    /\ fnCall.text = <<"A", ",", " ", "x">>
    /\ fnResult = << <<"x">> >>

\* C28: for a query with at least one content word, a result set whose every
\* result contains all the content words scores at least as much as any result
\* set of the same size, with the same off-topic words result by result, in which
\* no result contains a content word.
C28_OnTopicScoresAtLeastOffTopic ==
    LET content == { w \in {"rust", "async"} :
                        \E k \in 1..Len(fnCall.originalQuery) : fnCall.originalQuery[k] = w }
        Words(text) == { text[k] : k \in 1..Len(text) }
        OnTopic(rs) == \A k \in 1..Len(rs) : content \subseteq Words(rs[k])
        OffTopic(rs) == \A k \in 1..Len(rs) : content \cap Words(rs[k]) = {}
        SamePenalties(rs, others) ==
            \A k \in 1..Len(rs) : ("recipe" \in Words(rs[k])) = ("recipe" \in Words(others[k]))
    IN  (fnCall.fn = "assessResultQuality" /\ fnResult # <<>> /\ content # {}
            /\ fnCall.results # <<>> /\ OnTopic(fnCall.results)) =>
            \A others \in ResultSets :
                (Len(others) = Len(fnCall.results) /\ OffTopic(others)
                    /\ SamePenalties(fnCall.results, others)) =>
                    fnResult[1].sixtieths * AssessResultQuality(others, fnCall.originalQuery).of
                      >= AssessResultQuality(others, fnCall.originalQuery).sixtieths
                            * fnResult[1].of

\* a query with one content word and two results that hold it, one of them with
\* an off-topic word
C28_Witness ==
    /\ fnCall.fn = "assessResultQuality"
    /\ fnCall.originalQuery = <<"the", "rust">>
    /\ fnCall.results = << <<"rust", "recipe">>, <<"x", "rust">> >>
    /\ fnResult = << [sixtieths |-> 108, of |-> 2] >>

\* C26: when full-web-search is called with a number N > 0 as maxContentLength,
\* every content block of the response holds at most N characters of content,
\* followed by the truncation marker when the content was cut; with N = 0 the
\* content is emitted whole.
C26_ExplicitLimitHonoured ==
    (fnCall.fn = "full-web-search" /\ fnResult # <<>> /\ fnResult[1].rejected = ""
        /\ fnCall.args.maxContentLength.type = "number") =>
        \A k \in 1..Len(fnResult[1].emitted) :
            LET block == fnResult[1].emitted[k]
                N == fnCall.args.maxContentLength.num
            IN  /\ N > 0 => /\ block.length <= N
                            /\ block.marked = (fnCall.pageLength > N)
                /\ N = 0 => block.length = fnCall.pageLength /\ ~block.marked

\* C27: a call whose limit is not a number from 1 to 10 (or a string spelling
\* one), whose query is missing or not a string, or whose maxContentLength is
\* negative is rejected with a message, and neither the search nor the content
\* extractor is invoked.
C27_InvalidInputRejected ==
    LET args == fnCall.args
        Given(f) == f \in DOMAIN args /\ args[f].type # "undefined"
        badLimit ==
            /\ Given("limit")
            /\ ~(args.limit.type = "number" /\ args.limit.num \in 1..10)
            /\ ~(args.limit.type = "string"
                   /\ args.limit.text \in { <<"1">>, <<"0", "1">>, <<"1", "0">> })
        badQuery == "query" \in DOMAIN args /\ args.query.type # "string"
        badLength ==
            /\ Given("maxContentLength")
            /\ args.maxContentLength.type = "number" /\ args.maxContentLength.num < 0
    IN  (fnCall.fn \in {"full-web-search", "get-web-search-summaries",
                        "get-single-web-page-content"}
            /\ fnResult # <<>> /\ (badLimit \/ badQuery \/ badLength)) =>
            /\ fnResult[1].rejected # ""
            /\ ~fnResult[1].searchInvoked
            /\ ~fnResult[1].extractInvoked

----------------------------------------------------------------------------
\* Properties of the forced multi-engine search

\* C31: with the force-multi-engine flag on, search() has attempted every
\* backend exactly once, in the order primary, secondary, tertiary, by the time
\* it returns, whatever the earlier backends scored.
C31_ForcedTriesEveryBackend ==
    (pc = "returned" /\ cfg.forceMultiEngine)
    => /\ [k \in 1..Len(attempts) |-> attempts[k].engine]
             = <<"Browser Bing", "Browser Brave", "Axios DuckDuckGo">>
       /\ \A k \in 1..Len(attempts) : attempts[k].status \in {"results", "throws"}

C31_Witness ==
    /\ pc = "returned"
    /\ cfg.forceMultiEngine
    /\ cfg.enableQualityCheck
    /\ Len(attempts) = 3
    /\ Yielded(1) /\ attempts[1].relevance = 80
    /\ Yielded(2) /\ attempts[2].relevance = 30
    /\ attempts[3].status = "throws"

----------------------------------------------------------------------------
\* Properties of the backend attempts

\* the sum of a list of timeouts
RECURSIVE SumOf(_)
SumOf(list) == IF list = <<>> THEN 0 ELSE Head(list) + SumOf(Tail(list))

\* C32: a backend attempt is bounded by its slice min(total/3, 4000 ms) of the
\* caller's timeout: the timeouts of all the waits it issues, retries and
\* multi-step navigation included, add up to no more than the slice, so that
\* three attempts stay within the total. (Times in thirds of a millisecond.)
C32_AttemptWithinSlice ==
    fnCall.fn \in {"Browser Bing", "Browser Brave", "Axios DuckDuckGo"} =>
        LET slice == IF fnCall.timeout <= 12000 THEN fnCall.timeout ELSE 12000
        IN /\ fnResult[1].approachTimeout = slice
           /\ SumOf(fnResult[1].waits) <= slice
           /\ 3 * SumOf(fnResult[1].waits) <= 3 * fnCall.timeout

\* C39: a browser-based backend makes at most two attempts, each with a browser
\* it launches itself; when it returns or throws, close has been called on
\* every browser it launched; the second attempt is made only if the first
\* threw; and the error that leaves the backend is the second attempt's.
C39_TwoAttemptsBrowsersClosed ==
    fnCall.fn \in {"Browser Bing", "Browser Brave"} =>
        LET r == fnResult[1]
            At(op) == { n \in 1..Len(r.log) : r.log[n].op = op }
        IN /\ Len(r.attempts) \in {1, 2}
           /\ \A m, n \in At("launch") : m # n => r.log[m].browser # r.log[n].browser
           /\ Cardinality(At("launch")) <= Len(r.attempts)
           /\ \A n \in At("launch") :
                 \E m \in At("close") : m > n /\ r.log[m].browser = r.log[n].browser
           /\ Len(r.attempts) = 2 => r.attempts[1].threw
           /\ r.threw =>
                 /\ Len(r.attempts) = 2
                 /\ r.error.attempt = 2
                 /\ r.error.step = IF fnCall.run[2].launch THEN fnCall.run[2].fails
                                   ELSE "launch"

C39_Witness ==
    /\ fnCall.fn = "Browser Bing"
    /\ fnCall.run[1].launch /\ fnCall.run[1].fails = "goto"
    /\ fnCall.run[2].launch /\ fnCall.run[2].fails = "newContext" /\ fnCall.run[2].closeThrows
    /\ fnResult[1].threw
    /\ fnResult[1].error = [attempt |-> 2, step |-> "newContext"]
    /\ fnResult[1].log = << [op |-> "launch", browser |-> 1], [op |-> "close", browser |-> 1],
                            [op |-> "launch", browser |-> 2], [op |-> "close", browser |-> 2] >>

----------------------------------------------------------------------------
\* Properties of the HTTP/1.1 retry

\* C33: when the navigation of the slow path fails with an HTTP/2 protocol
\* error, the first context is closed before the fresh one is opened, the retry
\* makes one navigation in the fresh context and never another, whether that
\* one fails or not; a navigation that fails with any other error is not
\* retried.
C33_OneRetryInFreshContext ==
    LET Http2(n) == fNav[n].error = "net::ERR_HTTP2_PROTOCOL_ERROR"
        Threw(n) == fNav[n].error # ""
    IN /\ Len(fNav) <= 2
       /\ \A n \in 1..Len(fNav) :
             fNav[n].context = IF n = 1 THEN "context" ELSE "http1Context"
       /\ Len(fNav) = 2 => Http2(1)
       /\ (Len(fNav) >= 1 /\ Threw(1) /\ ~Http2(1)) => Len(fNav) = 1 /\ fPc = "rejected"
       /\ (Len(fNav) = 2 /\ Threw(2)) => fPc = "rejected"
       /\ (Len(fNav) >= 1 /\ Http2(1)) =>
             /\ fPc \in {"h1CloseFirst", "h1NewContext", "h1NewPage", "h1Route", "h1Goto",
                         "h1Content", "h1Close", "resolved", "rejected"}
             /\ fPc \in {"h1Content", "h1Close", "resolved"} => Len(fNav) = 2 /\ ~Threw(2)
             /\ fPc \in {"h1CloseFirst", "h1NewContext", "h1NewPage", "h1Route", "h1Goto"}
                   => Len(fNav) = 1
       /\ "http1Context" \in fOpen => "context" \notin fOpen
       /\ fPc \in {"h1NewContext", "h1NewPage", "h1Route", "h1Goto"} => "context" \notin fOpen

C33_Witness ==
    /\ fPc = "rejected"
    /\ Len(fNav) = 2
    /\ fNav[1] = [context |-> "context", error |-> "net::ERR_HTTP2_PROTOCOL_ERROR"]
    /\ fNav[2] = [context |-> "http1Context", error |-> "net::ERR_HTTP2_PROTOCOL_ERROR"]
    /\ fOpen = {"http1Context"}

----------------------------------------------------------------------------
\* Properties of the recorded extraction errors

\* C34: when the extraction of a batch item fails, the error recorded on its
\* entry names the cause: a request timeout is recorded as a timeout, a 403 as
\* forbidden, a 404 as not found and any other transport failure as a network
\* error, whether or not the slow path was tried before the failure.
C34_FailureClassified ==
    (fPc = "rejected" /\ fExtractor = "EnhancedContentExtractor") =>
        LET cause == fFast[1].out.error
            recorded == ErrorEntry([title |-> 1, url |-> fUrl, description |-> <<>>],
                                   fResult[1].error).error
        IN /\ cause.code = "ECONNABORTED" => recorded = "Request timeout"
           /\ cause.status = 403 => recorded = "403 Forbidden - Access denied"
           /\ cause.status = 404 => recorded = "404 Not found"
           /\ cause.code = "ENOTFOUND" => recorded = "Network error: getaddrinfo ENOTFOUND"

----------------------------------------------------------------------------
\* Properties of the main-content selection

----------------------------------------------------------------------------
\* Properties of the reset window

\* C36: a rejection lasts only as long as the window. A call of execute() made
\* 60 s or more after the window started sets the counter to 0, starts a new
\* window at the time of the call and is admitted; a call is rejected only
\* inside the window, and the wait a rejection reports is between 1 and 60
\* seconds.
C36_RejectionEndsWithWindow ==
    [][LET admitted == queued' = queued + 1
           rejected == lastWait' # lastWait
           called == admitted \/ rejected \/ lastResetTime' # lastResetTime
       IN /\ (called /\ clock - lastResetTime >= 60000)
                => /\ admitted
                   /\ ~rejected
                   /\ requestCount' = 0
                   /\ lastResetTime' = clock
          /\ rejected => /\ clock - lastResetTime < 60000
                         /\ requestCount >= 10
                         /\ lastWait' \in 1..60
                         /\ lastWait' * 1000 >= 60000 - (clock - lastResetTime)]_vars

C36_Witness ==
    /\ lastWait = 1
    /\ clock = 60000
    /\ lastResetTime = 60000
    /\ requestCount = 0
    /\ queued >= 1

----------------------------------------------------------------------------
\* Properties of concurrent getBrowser calls

\* C37: under any interleaving of concurrent getBrowser calls, every browser
\* the pool has launched that is still running and on which close has not been
\* called is held in the pool map, where a later closeAll finds it: no launched
\* browser is lost by being overwritten.
C37_LaunchedBrowsersHeld ==
    cPc = "idle" =>
        \A id \in 1..launchCount :
            (id \in connected /\ id \notin closeInvoked)
            => \E n \in 1..Len(browsers) : browsers[n].id = id

\* C38: the family getLastUsedBrowserType returns right after a caller's
\* awaited getBrowser call is the family of the browser returned to that
\* caller, however the concurrent calls interleave.
C38_LastUsedTypeIsReturnedFamily ==
    [][\A c \in {"first", "second"} :
          (calls[c].pc # "returned" /\ calls'[c].pc = "returned")
          => lastUsedBrowserType' = calls'[c].type]_vars

----------------------------------------------------------------------------
\* Properties of the entries of a batch

\* C40: batch extraction leaves its input list and the elements of it as they
\* were, and every entry it returns belongs to an input result of its own, with
\* that result's title, url and description; an entry differs from its result
\* only in fullContent, contentPreview, wordCount, timestamp, fetchStatus and
\* error.
C40_InputKeptEntriesFromInput ==
    /\ [](bPc = "returned" =>
            /\ \A j \in 1..Len(bReturned) :
                  /\ \E k \in 1..Len(bInput) :
                        /\ bReturned[j].title = bInput[k].title
                        /\ bReturned[j].url = bInput[k].url
                        /\ bReturned[j].description = bInput[k].description
                  /\ (DOMAIN bReturned[j]) \ {"title", "url", "description"}
                        \subseteq {"fullContent", "contentPreview", "wordCount",
                                   "timestamp", "fetchStatus", "error"}
            /\ \A j1, j2 \in 1..Len(bReturned) :
                  j1 # j2 => bReturned[j1].title # bReturned[j2].title)
    /\ [][bPc # "idle" => bInput' = bInput]_vars

C40_Witness ==
    /\ bPc = "returned"
    /\ Len(bInput) = 3
    /\ Len(bReturned) = 2
    /\ bReturned[1].fetchStatus = "success" /\ bReturned[1].title = bInput[3].title
    /\ bReturned[2].fetchStatus = "error" /\ bReturned[2].title = bInput[1].title

====
